---- MODULE Spec2Model ----
(***************************************************************************)
(* Model of the bondnet data layer:                                        *)
(*   - the sharded LMDB store (bondnet/data/lmdb_dataset.py):              *)
(*     CRNs2lmdb, write_crns_to_lmdb, merge_lmdbs, cleanup_lmdb_files;     *)
(*   - the reaction-network dataset loaders (bondnet/data/dataset.py):     *)
(*     ReactionNetworkDataset, ReactionNetworkDatasetGraphs,               *)
(*     ReactionNetworkDatasetPrecomputed.                                  *)
(*                                                                         *)
(* An LMDB key is a byte string, modelled as a sequence of one-character   *)
(* strings; an LMDB cursor walks the keys in bytewise lexicographic order. *)
(***************************************************************************)
EXTENDS Integers, Sequences, FiniteSets, TLC

\* ------------------------------------------------------------------------
\* Bounds
\* ------------------------------------------------------------------------
MaxWorkers == 2      \* largest config["num_workers"] of a CRNs2lmdb run
MaxSamples == 2      \* largest len(CRNsDb) of a CRNs2lmdb run
MaxRuns == 2         \* CRNs2lmdb runs made on the same out_path
MaxShardLen == 11    \* largest shard handed to a stand-alone merge_lmdbs
MaxMols == 3         \* molecules of a dataset
MaxLabels == 2       \* raw label records of a dataset
MaxReaders == 3      \* largest config["total_shards"] of the readers
MaxStoreLen == 4     \* samples of the store the readers open
MaxSize == 4         \* len(dataset) of a dataset that is split

\* ------------------------------------------------------------------------
\* Byte strings
\* ------------------------------------------------------------------------
\* The characters that occur in keys, in ASCII order.
Alphabet ==
  << " ", "+", "-", "0", "1", "2", "3", "4", "5", "6", "7", "8", "9", "_",
     "a", "d", "e", "f", "g", "h", "i", "l", "m", "n", "p", "r", "s", "t",
     "u", "y", "z" >>

Ord(c) == CHOOSE i \in 1..Len(Alphabet) : Alphabet[i] = c

Digits == << "0", "1", "2", "3", "4", "5", "6", "7", "8", "9" >>

IsDigit(c) == \E i \in 1..10 : Digits[i] = c

\* f"{idx}" : the decimal representation of a non-negative int.
RECURSIVE Str(_)
Str(i) == IF i < 10 THEN << Digits[i + 1] >>
          ELSE Str(i \div 10) \o << Digits[(i % 10) + 1] >>

\* bytes.__lt__ : bytewise lexicographic order, a proper prefix comes first.
RECURSIVE LexLess(_, _)
LexLess(a, b) ==
  IF b = << >> THEN FALSE
  ELSE IF a = << >> THEN TRUE
  ELSE IF Ord(Head(a)) # Ord(Head(b)) THEN Ord(Head(a)) < Ord(Head(b))
  ELSE LexLess(Tail(a), Tail(b))

\* str.strip() of the whitespace int() ignores.
RECURSIVE LStrip(_)
LStrip(s) == IF s # << >> /\ Head(s) = " " THEN LStrip(Tail(s)) ELSE s

RECURSIVE RStrip(_)
RStrip(s) == IF s # << >> /\ s[Len(s)] = " "
             THEN RStrip(SubSeq(s, 1, Len(s) - 1)) ELSE s

\* digits, with single underscores allowed between digits (PEP 515).
DigitPart(s) ==
  /\ s # << >>
  /\ IsDigit(s[1])
  /\ IsDigit(s[Len(s)])
  /\ \A i \in 1..Len(s) : IsDigit(s[i]) \/ s[i] = "_"
  /\ \A i \in 1..(Len(s) - 1) : ~(s[i] = "_" /\ s[i + 1] = "_")

\* int(key.decode("ascii")) does not raise ValueError.
PyIntParses(k) ==
  LET s == RStrip(LStrip(k))
      body == IF s # << >> /\ s[1] \in {"+", "-"} THEN Tail(s) ELSE s
  IN  DigitPart(body)

\* "base-10 non-negative integer" in the strict sense: digits only.
IsDecimal(k) == k # << >> /\ \A i \in 1..Len(k) : IsDigit(k[i])

\* ------------------------------------------------------------------------
\* Serialization and store contents
\* ------------------------------------------------------------------------
\* pickle.dumps(x, protocol=-1) / pickle.loads(v)
Dumps(x) == << "pickle", x >>

Loads(v) == v[2]

KeyLength == << "l", "e", "n", "g", "t", "h" >>
KeyDtype == << "d", "t", "y", "p", "e" >>
KeyFeatureSize == << "f", "e", "a", "t", "u", "r", "e", "_", "s", "i", "z", "e" >>
KeyFeatureName == << "f", "e", "a", "t", "u", "r", "e", "_", "n", "a", "m", "e" >>

\* meta_keys of CRNs2lmdb, in dict insertion order, and their values.
meta_keys == << KeyDtype, KeyFeatureSize, KeyFeatureName >>

MetaValue(k) == << "meta", k >>

MetadataNames == {KeyLength, KeyDtype, KeyFeatureSize, KeyFeatureName}

\* CRNsDb[j] (0-based j): the datasets of all calls are prefixes of one
\* sequence of samples.
Sample(j) == << "sample", j >>

\* An LMDB environment: the committed key/value pairs of a file.
EmptyKV == << >>

NoFile == [exists |-> FALSE, kv |-> EmptyKV]

\* txn.put(key, value); txn.commit()
Put(kv, k, v) == [x \in (DOMAIN kv) \cup {k} |-> IF x = k THEN v ELSE kv[x]]

\* The keys of an environment in cursor order.
RECURSIVE SortKeys(_)
SortKeys(S) ==
  IF S = {} THEN << >>
  ELSE LET m == CHOOSE x \in S : \A y \in S \ {x} : LexLess(x, y)
       IN  << m >> \o SortKeys(S \ {m})

CursorKeys(kv) == SortKeys(DOMAIN kv)

\* Paths under config["out_path"].
ShardPath(i) == << "_tmp_data", i >>

OutPath == << "output_file" >>

AllPaths == {ShardPath(i) : i \in 0..(MaxWorkers - 1)} \cup {OutPath}

\* glob pattern "_tmp_data*"
MatchesTmpData(p) == p[1] = "_tmp_data"

\* A split that gives the remainder to the last shards.
divide_to_listRemainderLast(a, b) ==
  [i \in 1..b |-> (a \div b) + (IF (i - 1) >= b - (a % b) THEN 1 ELSE 0)]

\* divide_to_list(a, b)
divide_to_list(a, b) ==
  [i \in 1..b |-> (a \div b) + (IF (i - 1) < (a % b) THEN 1 ELSE 0)]

RECURSIVE SumSeq(_)
SumSeq(s) == IF s = << >> THEN 0 ELSE Head(s) + SumSeq(Tail(s))

\* random_split(dataset, lengths): a random permutation of the indices,
\* cut into consecutive pieces of the given lengths.
IndexPerms(n) ==
  {p \in [1..n -> 1..n] : \A a, b \in 1..n : a # b => p[a] # p[b]}

random_split(perm, lengths) ==
  [c \in 1..Len(lengths) |->
     LET off == SumSeq(SubSeq(lengths, 1, c - 1))
     IN  [j \in 1..lengths[c] |-> Sample(perm[off + j] - 1)]]

\* The loop body of merge_lmdbs over one shard (lines 262-279): walk the
\* cursor, renumber the keys int() accepts, copy the others by name.
RECURSIVE MergeKeys(_, _, _, _)
MergeKeys(out, in, keys, idx) ==
  IF keys = << >> THEN [kv |-> out, idx |-> idx]
  ELSE LET key == Head(keys)
       IN  IF PyIntParses(key)
           THEN MergeKeys(Put(out, Str(idx), in[key]), in, Tail(keys), idx + 1)
           ELSE MergeKeys(Put(out, key, in[key]), in, Tail(keys), idx)

MergeShardInto(out, in, idx) == MergeKeys(out, in, CursorKeys(in), idx)

\* ------------------------------------------------------------------------
\* State of the sharded store
\* ------------------------------------------------------------------------
VARIABLES
  fs,         \* path -> [exists, kv] : the files under out_path
  mpc,        \* position of the caller: CRNs2lmdb / merge_lmdbs
  run,        \* number of CRNs2lmdb calls made so far
  db_paths,   \* db_paths: the shard paths of the current call, in order
  chunks,     \* dataset_chunked: chunks[i + 1] are worker i's samples
  wpc,        \* worker i's position in write_crns_to_lmdb
  widx,       \* worker i's idx
  wmeta,      \* worker i's position in meta_keys.items()
  wtxn,       \* worker i's number of committed transactions
  wfresh,     \* whether worker i's shard path did not exist when opened
  midx,       \* merge_lmdbs' idx
  mpos,       \* merge_lmdbs' position in db_paths (shards merged so far)
  outfresh,   \* whether the output path did not exist when merge opened it
  file_list   \* cleanup_lmdb_files' file_list still to be removed

storeVars ==
  << fs, mpc, run, db_paths, chunks, wpc, widx, wmeta, wtxn, wfresh, midx,
     mpos, outfresh, file_list >>

VARIABLES
  cls,                  \* which dataset class is constructed
  feature_transformer,  \* constructor argument
  label_transformer,    \* constructor argument
  device,               \* constructor argument ("None" or a device name)
  molecules,            \* self.molecules
  raw_labels,           \* self.raw_labels
  lpc,                  \* position in _load
  error,                \* the exception _load ended with ("" when none)
  graphs,               \* graphs, as built by build_graphs
  molecules_final,      \* the local molecules_final: [defined, val]
  li,                   \* index of the next raw label in "for i, lb in ..."
  reactions,            \* reactions
  labels,               \* self.labels
  failed,               \* self._failed
  reaction_ids,         \* self.reaction_ids
  bi,                   \* index of the next reaction in build_reaction_graphs
  reaction_graphs,      \* self.reaction_graphs
  printed,              \* what was printed
  state_dict_filename,  \* constructor argument: whether it is not None
  state_dict,           \* what torch.load(state_dict_filename) returns
  stored,               \* the fields state_dict() returns: self._feature_size,
                        \* ..., self._species
  reaction_network,     \* self.reaction_network
  got                   \* what the last dataset[item] returned

inputVars ==
  << cls, feature_transformer, label_transformer, device, molecules,
     raw_labels, state_dict_filename, state_dict >>

loadVars ==
  << cls, feature_transformer, label_transformer, device, molecules,
     raw_labels, state_dict_filename, state_dict, lpc, error, graphs,
     molecules_final, li, reactions, labels, failed, reaction_ids, bi,
     reaction_graphs, printed, stored, reaction_network, got >>

VARIABLES
  src,          \* the LMDB file config["src"] names: its key/value pairs
  total_shards, \* config["total_shards"] (0: the key is not in config)
  rd,           \* reader r (config["shard"] = r): the LmdbDataset object
  rgot          \* what the last LmdbDataset.__getitem__ returned

readVars == << src, total_shards, rd, rgot >>

VARIABLES
  dataset,      \* the dataset handed to a split function: its labels' ids
  validation,   \* argument validation, in quarters
  test,         \* argument test, in quarters
  spc,          \* position of the caller of the split function
  train_idx,    \* indices of the returned Subset 0
  val_idx,      \* indices of the returned Subset 1
  test_idx,     \* indices of the returned Subset 2
  sgot          \* what the last Subset.__getitem__ returned

splitVars ==
  << dataset, validation, test, spc, train_idx, val_idx, test_idx, sgot >>

vars == << storeVars, loadVars, readVars, splitVars >>

Workers == 0..(MaxWorkers - 1)

Active == {i \in Workers : wpc[i] # "none"}

StoreInit ==
  /\ fs = [p \in AllPaths |-> NoFile]
  /\ mpc = "idle"
  /\ run = 0
  /\ db_paths = << >>
  /\ chunks = << >>
  /\ wpc = [i \in Workers |-> "none"]
  /\ widx = [i \in Workers |-> 0]
  /\ wmeta = [i \in Workers |-> 0]
  /\ wtxn = [i \in Workers |-> 0]
  /\ wfresh = [i \in Workers |-> FALSE]
  /\ midx = 0
  /\ mpos = 0
  /\ outfresh = FALSE
  /\ file_list = {}

\* ------------------------------------------------------------------------
\* CRNs2lmdb (lines 149-190)
\* ------------------------------------------------------------------------
\* Lines 151-185: make the paths, split the dataset, hand one chunk to each
\* pool worker.
CRNs2lmdbStart(n, w, perm) ==
  /\ mpc \in {"idle", "done", "raised"}
  /\ run' = run + 1
  /\ db_paths' = [i \in 1..w |-> ShardPath(i - 1)]
  /\ chunks' = random_split(perm, divide_to_list(n, w))
  /\ wpc' = [i \in Workers |-> IF i < w THEN "open" ELSE "none"]
  /\ widx' = [i \in Workers |-> 0]
  /\ wmeta' = [i \in Workers |-> 0]
  /\ wtxn' = [i \in Workers |-> 0]
  /\ wfresh' = [i \in Workers |-> FALSE]
  /\ midx' = 0
  /\ mpos' = 0
  /\ outfresh' = FALSE
  /\ file_list' = {}
  /\ mpc' = "map"
  /\ UNCHANGED fs
  /\ UNCHANGED << loadVars, readVars, splitVars >>

\* A pool call that drops the workers' exceptions.
PoolMapReturnIgnoresFailure ==
  /\ mpc = "map"
  /\ \A i \in Active : wpc[i] \in {"done", "failed"}
  /\ mpc' = "merge_open"
  /\ UNCHANGED << fs, run, db_paths, chunks, wpc, widx, wmeta, wtxn, wfresh,
                  midx, mpos, outfresh, file_list >>
  /\ UNCHANGED << loadVars, readVars, splitVars >>

\* pool.map returns once every task has finished; it re-raises the first
\* worker exception instead of returning (line 185).
PoolMapReturn ==
  /\ mpc = "map"
  /\ \A i \in Active : wpc[i] \in {"done", "failed"}
  /\ mpc' = IF \E i \in Active : wpc[i] = "failed" THEN "raised"
            ELSE "merge_open"
  /\ UNCHANGED << fs, run, db_paths, chunks, wpc, widx, wmeta, wtxn, wfresh,
                  midx, mpos, outfresh, file_list >>
  /\ UNCHANGED << loadVars, readVars, splitVars >>

\* A writer that commits "length" as soon as the file is open.
WriterOpenPutsLength(i) ==
  /\ wpc[i] = "open"
  /\ wfresh' = [wfresh EXCEPT ![i] = ~fs[ShardPath(i)].exists]
  /\ fs' = [fs EXCEPT ![ShardPath(i)] =
              [exists |-> TRUE,
               kv |-> Put(@.kv, KeyLength, Dumps(Len(chunks[i + 1])))]]
  /\ wpc' = [wpc EXCEPT ![i] = "put"]
  /\ UNCHANGED << mpc, run, db_paths, chunks, widx, wmeta, wtxn, midx, mpos,
                  outfresh, file_list >>
  /\ UNCHANGED << loadVars, readVars, splitVars >>

\* ------------------------------------------------------------------------
\* write_crns_to_lmdb (lines 193-234), one worker
\* ------------------------------------------------------------------------
\* lmdb.open(db_path, ...) creates the file when it is missing and keeps
\* its content when it exists (lines 197-203).
WriterOpen(i) ==
  /\ wpc[i] = "open"
  /\ wfresh' = [wfresh EXCEPT ![i] = ~fs[ShardPath(i)].exists]
  /\ fs' = [fs EXCEPT ![ShardPath(i)].exists = TRUE]
  /\ wpc' = [wpc EXCEPT ![i] = "put"]
  /\ UNCHANGED << mpc, run, db_paths, chunks, widx, wmeta, wtxn, midx, mpos,
                  outfresh, file_list >>
  /\ UNCHANGED << loadVars, readVars, splitVars >>

\* A loop that increments idx before the put.
WriterPutSampleSkipsZero(i) ==
  /\ wpc[i] = "put"
  /\ widx[i] < Len(chunks[i + 1])
  /\ fs' = [fs EXCEPT ![ShardPath(i)].kv =
              Put(@, Str(widx[i] + 1), Dumps(chunks[i + 1][widx[i] + 1]))]
  /\ widx' = [widx EXCEPT ![i] = @ + 1]
  /\ wtxn' = [wtxn EXCEPT ![i] = @ + 1]
  /\ UNCHANGED << mpc, run, db_paths, chunks, wpc, wmeta, wfresh, midx, mpos,
                  outfresh, file_list >>
  /\ UNCHANGED << loadVars, readVars, splitVars >>

\* Workers that were all handed the same db_path.
WriterPutSampleSharedPath(i) ==
  /\ wpc[i] = "put"
  /\ widx[i] < Len(chunks[i + 1])
  /\ fs' = [fs EXCEPT ![ShardPath(0)].kv =
              Put(@, Str(widx[i]), Dumps(chunks[i + 1][widx[i] + 1]))]
  /\ widx' = [widx EXCEPT ![i] = @ + 1]
  /\ wtxn' = [wtxn EXCEPT ![i] = @ + 1]
  /\ UNCHANGED << mpc, run, db_paths, chunks, wpc, wmeta, wfresh, midx, mpos,
                  outfresh, file_list >>
  /\ UNCHANGED << loadVars, readVars, splitVars >>

\* One iteration of "for sample in samples" (lines 213-221).
WriterPutSample(i) ==
  /\ wpc[i] = "put"
  /\ widx[i] < Len(chunks[i + 1])
  /\ fs' = [fs EXCEPT ![ShardPath(i)].kv =
              Put(@, Str(widx[i]), Dumps(chunks[i + 1][widx[i] + 1]))]
  /\ widx' = [widx EXCEPT ![i] = @ + 1]
  /\ wtxn' = [wtxn EXCEPT ![i] = @ + 1]
  /\ UNCHANGED << mpc, run, db_paths, chunks, wpc, wmeta, wfresh, midx, mpos,
                  outfresh, file_list >>
  /\ UNCHANGED << loadVars, readVars, splitVars >>

\* A "length" record that holds the last index instead of the count.
WriterPutLengthLastIndex(i) ==
  /\ wpc[i] = "put"
  /\ widx[i] = Len(chunks[i + 1])
  /\ fs' = [fs EXCEPT ![ShardPath(i)].kv =
              Put(@, KeyLength, Dumps(Len(chunks[i + 1]) - 1))]
  /\ wtxn' = [wtxn EXCEPT ![i] = @ + 1]
  /\ wmeta' = [wmeta EXCEPT ![i] = 1]
  /\ wpc' = [wpc EXCEPT ![i] = "meta"]
  /\ UNCHANGED << mpc, run, db_paths, chunks, widx, wfresh, midx, mpos,
                  outfresh, file_list >>
  /\ UNCHANGED << loadVars, readVars, splitVars >>

\* Lines 224-226: the "length" record, after the last sample.
WriterPutLength(i) ==
  /\ wpc[i] = "put"
  /\ widx[i] = Len(chunks[i + 1])
  /\ fs' = [fs EXCEPT ![ShardPath(i)].kv =
              Put(@, KeyLength, Dumps(Len(chunks[i + 1])))]
  /\ wtxn' = [wtxn EXCEPT ![i] = @ + 1]
  /\ wmeta' = [wmeta EXCEPT ![i] = 1]
  /\ wpc' = [wpc EXCEPT ![i] = "meta"]
  /\ UNCHANGED << mpc, run, db_paths, chunks, widx, wfresh, midx, mpos,
                  outfresh, file_list >>
  /\ UNCHANGED << loadVars, readVars, splitVars >>

\* One iteration of "for key, value in meta_keys.items()" (lines 228-231).
WriterPutMeta(i) ==
  /\ wpc[i] = "meta"
  /\ fs' = [fs EXCEPT ![ShardPath(i)].kv =
              Put(@, meta_keys[wmeta[i]], Dumps(MetaValue(meta_keys[wmeta[i]])))]
  /\ wtxn' = [wtxn EXCEPT ![i] = @ + 1]
  /\ wmeta' = [wmeta EXCEPT ![i] = @ + 1]
  /\ wpc' = [wpc EXCEPT ![i] = IF wmeta[i] = Len(meta_keys) THEN "sync"
                                 ELSE "meta"]
  /\ UNCHANGED << mpc, run, db_paths, chunks, widx, wfresh, midx, mpos,
                  outfresh, file_list >>
  /\ UNCHANGED << loadVars, readVars, splitVars >>

\* db.sync(); db.close() (lines 233-234).
WriterSyncClose(i) ==
  /\ wpc[i] = "sync"
  /\ wpc' = [wpc EXCEPT ![i] = "done"]
  /\ UNCHANGED << fs, mpc, run, db_paths, chunks, widx, wmeta, wtxn, wfresh,
                  midx, mpos, outfresh, file_list >>
  /\ UNCHANGED << loadVars, readVars, splitVars >>

\* A put, a pickle.dumps or the open raises (disk full, unpicklable
\* sample): the worker's task ends with an exception, what it committed
\* stays in the shard file.
WriterRaise(i) ==
  /\ wpc[i] \in {"open", "put", "meta"}
  /\ wpc' = [wpc EXCEPT ![i] = "failed"]
  /\ UNCHANGED << fs, mpc, run, db_paths, chunks, widx, wmeta, wtxn, wfresh,
                  midx, mpos, outfresh, file_list >>
  /\ UNCHANGED << loadVars, readVars, splitVars >>

\* ------------------------------------------------------------------------
\* merge_lmdbs (lines 237-288)
\* ------------------------------------------------------------------------
\* lmdb.open of the output path (lines 241-250): created when missing, kept
\* with its content when it exists.
MergeOpen ==
  /\ mpc = "merge_open"
  /\ outfresh' = ~fs[OutPath].exists
  /\ fs' = [fs EXCEPT ![OutPath].exists = TRUE]
  /\ midx' = 0
  /\ mpos' = 0
  /\ mpc' = "merge_loop"
  /\ UNCHANGED << run, db_paths, chunks, wpc, widx, wmeta, wtxn, wfresh,
                  file_list >>
  /\ UNCHANGED << loadVars, readVars, splitVars >>

\* A loop that walks db_paths from its end.
MergeShardReversed ==
  /\ mpc = "merge_loop"
  /\ mpos < Len(db_paths)
  /\ LET r == MergeShardInto(fs[OutPath].kv,
                             fs[db_paths[Len(db_paths) - mpos]].kv, midx)
     IN  /\ fs' = [fs EXCEPT ![OutPath].kv = r.kv]
         /\ midx' = r.idx
  /\ mpos' = mpos + 1
  /\ UNCHANGED << mpc, run, db_paths, chunks, wpc, widx, wmeta, wtxn, wfresh,
                  outfresh, file_list >>
  /\ UNCHANGED << loadVars, readVars, splitVars >>

\* One iteration of "for db_path in db_paths" (lines 251-280): one write
\* transaction on the output, committed when the with-block is left.
MergeShard ==
  /\ mpc = "merge_loop"
  /\ mpos < Len(db_paths)
  /\ LET r == MergeShardInto(fs[OutPath].kv, fs[db_paths[mpos + 1]].kv, midx)
     IN  /\ fs' = [fs EXCEPT ![OutPath].kv = r.kv]
         /\ midx' = r.idx
  /\ mpos' = mpos + 1
  /\ UNCHANGED << mpc, run, db_paths, chunks, wpc, widx, wmeta, wtxn, wfresh,
                  outfresh, file_list >>
  /\ UNCHANGED << loadVars, readVars, splitVars >>

\* Lines 283-285: the corrected "length".
MergeLength ==
  /\ mpc = "merge_loop"
  /\ mpos = Len(db_paths)
  /\ fs' = [fs EXCEPT ![OutPath].kv = Put(@, KeyLength, Dumps(midx))]
  /\ mpc' = "merge_sync"
  /\ UNCHANGED << run, db_paths, chunks, wpc, widx, wmeta, wtxn, wfresh, midx,
                  mpos, outfresh, file_list >>
  /\ UNCHANGED << loadVars, readVars, splitVars >>

\* env_out.sync(); env_out.close() (lines 287-288).
MergeSyncClose ==
  /\ mpc = "merge_sync"
  /\ mpc' = "merged"
  /\ UNCHANGED << fs, run, db_paths, chunks, wpc, widx, wmeta, wtxn, wfresh,
                  midx, mpos, outfresh, file_list >>
  /\ UNCHANGED << loadVars, readVars, splitVars >>

\* ------------------------------------------------------------------------
\* cleanup_lmdb_files (lines 136-147), called by CRNs2lmdb (line 190)
\* ------------------------------------------------------------------------
\* A cleanup that starts while merge_lmdbs is still in its loop.
CleanupGlobDuringMerge ==
  /\ mpc = "merge_loop"
  /\ run > 0
  /\ file_list' = {p \in AllPaths : MatchesTmpData(p) /\ fs[p].exists}
  /\ mpc' = "cleanup"
  /\ UNCHANGED << fs, run, db_paths, chunks, wpc, widx, wmeta, wtxn, wfresh,
                  midx, mpos, outfresh >>
  /\ UNCHANGED << loadVars, readVars, splitVars >>

\* file_list = glob.glob(...) (line 140), after merge_lmdbs returned.
CleanupGlob ==
  /\ mpc = "merged"
  /\ run > 0
  /\ file_list' = {p \in AllPaths : MatchesTmpData(p) /\ fs[p].exists}
  /\ mpc' = "cleanup"
  /\ UNCHANGED << fs, run, db_paths, chunks, wpc, widx, wmeta, wtxn, wfresh,
                  midx, mpos, outfresh >>
  /\ UNCHANGED << loadVars, readVars, splitVars >>

CleanupRemove(p) ==
  /\ mpc = "cleanup"
  /\ p \in file_list
  /\ fs' = [fs EXCEPT ![p] = NoFile]
  /\ file_list' = file_list \ {p}
  /\ UNCHANGED << mpc, run, db_paths, chunks, wpc, widx, wmeta, wtxn, wfresh,
                  midx, mpos, outfresh >>
  /\ UNCHANGED << loadVars, readVars, splitVars >>

\* os.remove raises OSError (lines 146-147): the error is printed, the
\* file stays, the loop goes on.
CleanupRemoveFails(p) ==
  /\ mpc = "cleanup"
  /\ p \in file_list
  /\ file_list' = file_list \ {p}
  /\ UNCHANGED << fs, mpc, run, db_paths, chunks, wpc, widx, wmeta, wtxn,
                  wfresh, midx, mpos, outfresh >>
  /\ UNCHANGED << loadVars, readVars, splitVars >>

CleanupDone ==
  /\ mpc = "cleanup"
  /\ file_list = {}
  /\ mpc' = "done"
  /\ UNCHANGED << fs, run, db_paths, chunks, wpc, widx, wmeta, wtxn, wfresh,
                  midx, mpos, outfresh, file_list >>
  /\ UNCHANGED << loadVars, readVars, splitVars >>

\* ------------------------------------------------------------------------
\* Stand-alone merge_lmdbs over given shard files
\* ------------------------------------------------------------------------
\* The content write_crns_to_lmdb leaves in a fresh file for the samples
\* Sample(a) .. Sample(a + n - 1).
RECURSIVE PutSamples(_, _, _)
PutSamples(kv, a, n) ==
  IF n = 0 THEN kv
  ELSE Put(PutSamples(kv, a, n - 1), Str(n - 1), Dumps(Sample(a + n - 1)))

RECURSIVE PutMeta(_, _)
PutMeta(kv, m) ==
  IF m = 0 THEN kv
  ELSE Put(PutMeta(kv, m - 1), meta_keys[m], Dumps(MetaValue(meta_keys[m])))

WrittenShard(a, n) ==
  PutMeta(Put(PutSamples(EmptyKV, a, n), KeyLength, Dumps(n)), Len(meta_keys))

\* Keys a hand-made shard may carry besides the writer's.
ForeignKeys ==
  { << "-", "1" >>, << "+", "1" >>, << " ", "1" >>, << "1", "_", "0" >>,
    << "1", "z" >> }

ForeignValue == << "pickle", "foreign" >>

\* ------------------------------------------------------------------------
\* Reaction-network datasets (bondnet/data/dataset.py): inputs
\* ------------------------------------------------------------------------
RND == "ReactionNetworkDataset"
RNDGraphs == "ReactionNetworkDatasetGraphs"
RNDPrecomputed == "ReactionNetworkDatasetPrecomputed"

\* A molecule of the molecule list: None, or a molecule with its atoms and
\* bonds. Molecule i has 1 atom when i is even, 2 atoms and a bond when odd.
NoneMol == [none |-> TRUE, natoms |-> 0, nbonds |-> 0]

Mol(i) == [none |-> FALSE, natoms |-> 1 + (i % 2), nbonds |-> i % 2]

\* Raw label records. mapping[side][participant][local + 1] = unified index.
\* A + C -> C + A, two participants a side, mappings partition {0, 1}.
RecSwap ==
  [id |-> "swap", reactants |-> << 0, 2 >>, products |-> << 2, 0 >>,
   atom_mapping |-> << << << 0 >>, << 1 >> >>, << << 1 >>, << 0 >> >> >>,
   bond_mapping |-> << << << >>, << >> >>, << << >>, << >> >> >>,
   total_atoms |-> 2, total_bonds |-> 0, value |-> 1]

\* B -> B, one participant a side with a bond.
RecIso ==
  [id |-> "iso", reactants |-> << 1 >>, products |-> << 1 >>,
   atom_mapping |-> << << << 0, 1 >> >>, << << 1, 0 >> >> >>,
   bond_mapping |-> << << << 0 >> >>, << << 0 >> >> >>,
   total_atoms |-> 2, total_bonds |-> 1, value |-> 2]

\* A + C -> C + A where both reactants are mapped to position 0.
RecOverlap ==
  [id |-> "overlap", reactants |-> << 0, 2 >>, products |-> << 2, 0 >>,
   atom_mapping |-> << << << 0 >>, << 0 >> >>, << << 1 >>, << 0 >> >> >>,
   bond_mapping |-> << << << >>, << >> >>, << << >>, << >> >> >>,
   total_atoms |-> 2, total_bonds |-> 0, value |-> 3]

\* A -> B: one reactant atom, two product atoms, total_atoms = 2.
RecUnbalanced ==
  [id |-> "unbalanced", reactants |-> << 0 >>, products |-> << 1 >>,
   atom_mapping |-> << << << 0 >> >>, << << 0, 1 >> >> >>,
   bond_mapping |-> << << << >> >>, << << 0 >> >> >>,
   total_atoms |-> 2, total_bonds |-> 1, value |-> 4]

\* A reactant index past the end of the molecule list.
RecDangling ==
  [id |-> "dangling", reactants |-> << MaxMols >>, products |-> << 0 >>,
   atom_mapping |-> << << << 0 >> >>, << << 0 >> >> >>,
   bond_mapping |-> << << << >> >>, << << >> >> >>,
   total_atoms |-> 1, total_bonds |-> 0, value |-> 5]

\* B -> B with two bond_mapping entries for the single reactant.
RecExtraEntry ==
  [id |-> "extra_entry", reactants |-> << 1 >>, products |-> << 1 >>,
   atom_mapping |-> << << << 0, 1 >> >>, << << 0, 1 >> >> >>,
   bond_mapping |-> << << << 0 >>, << >> >>, << << 0 >> >> >>,
   total_atoms |-> 2, total_bonds |-> 1, value |-> 6]

RawRecords ==
  {RecSwap, RecIso, RecOverlap, RecUnbalanced, RecDangling, RecExtraEntry}

SeqsUpTo(S, n) == UNION {[1..k -> S] : k \in 0..n}

\* ------------------------------------------------------------------------
\* Reaction-network datasets: state
\* ------------------------------------------------------------------------
Undefined == [defined |-> FALSE, val |-> << >>]

\* The keys of state_dict() and load_state_dict (lines 159-179).
StateFields ==
  {"feature_size", "feature_name", "feature_scaler_mean", "feature_scaler_std",
   "label_scaler_mean", "label_scaler_std", "species"}

\* A value of a state dict file: the key is missing, it holds None, or it
\* holds the value saved for field f.
Given(f) == << "given", f >>

NoneValue == << "None" >>

MissingKey == << "missing" >>

\* No state dict file is read.
NoStateDict == [f \in StateFields |-> MissingKey]

\* self.reaction_network before _load has set it.
NoNetwork == [object |-> 0, graphs |-> << >>, reactions |-> << >>]

\* The fields of a freshly constructed BaseDataset (lines 98-107).
LoadFields ==
  /\ error = ""
  /\ graphs = << >>
  /\ molecules_final = Undefined
  /\ li = 0
  /\ reactions = << >>
  /\ labels = << >>
  /\ failed = << >>
  /\ reaction_ids = << >>
  /\ bi = 0
  /\ reaction_graphs = << >>
  /\ printed = {}
  /\ stored = [f \in StateFields |-> NoneValue]
  /\ reaction_network = NoNetwork
  /\ got = << >>

\* No dataset is being constructed.
LoadIdle ==
  /\ cls = RND
  /\ feature_transformer = TRUE
  /\ label_transformer = TRUE
  /\ device = "None"
  /\ molecules = << >>
  /\ raw_labels = << >>
  /\ lpc = "idle"
  /\ state_dict_filename = FALSE
  /\ state_dict = NoStateDict
  /\ LoadFields

\* A constructor call: __init__ stores the arguments and calls _load.
LoadInit ==
  /\ cls \in {RND, RNDGraphs, RNDPrecomputed}
  /\ feature_transformer \in BOOLEAN
  /\ label_transformer \in BOOLEAN
  /\ device \in (IF cls = RND THEN {"None"} ELSE {"None", "cpu"})
  /\ \E mask \in [1..MaxMols -> BOOLEAN] :
       molecules = [i \in 1..MaxMols |-> IF mask[i] THEN Mol(i - 1) ELSE NoneMol]
  /\ raw_labels \in SeqsUpTo(RawRecords, MaxLabels)
  /\ lpc = "species"
  /\ state_dict_filename = FALSE
  /\ state_dict = NoStateDict
  /\ LoadFields

\* ------------------------------------------------------------------------
\* LmdbDataset readers and dataset splits: state
\* ------------------------------------------------------------------------
Readers == 0..(MaxReaders - 1)

\* An LmdbDataset object that was not constructed. "reported" holds what
\* the constructor prints, warns or logs about the store.
NoReader ==
  [open |-> FALSE, num_entries |-> 0, sharded |-> FALSE,
   available_indices |-> << >>, num_samples |-> 0, reported |-> << >>]

\* No LmdbDataset is opened.
ReadIdle ==
  /\ src = EmptyKV
  /\ total_shards = 0
  /\ rd = [r \in Readers |-> NoReader]
  /\ rgot = << >>

\* No dataset is split.
SplitIdle ==
  /\ dataset = << >>
  /\ validation = 0
  /\ test = 0
  /\ spc = "idle"
  /\ train_idx = << >>
  /\ val_idx = << >>
  /\ test_idx = << >>
  /\ sgot = << >>

\* ------------------------------------------------------------------------
\* Reaction-network datasets: helpers
\* ------------------------------------------------------------------------
NoneGraph ==
  [none |-> TRUE, natoms |-> 0, nbonds |-> 0, graph_id |-> 0, feat |-> << "raw" >>]

\* grapher.build_graph_and_featurize(mol, ...); g.graph_id = ind
build_graph(mol, ind) ==
  IF mol.none THEN NoneGraph
  ELSE [none |-> FALSE, natoms |-> mol.natoms, nbonds |-> mol.nbonds,
        graph_id |-> ind, feat |-> << "raw" >>]

\* build_graphs(grapher, molecules, features, species)
build_graphs(mols) == [i \in 1..Len(mols) |-> build_graph(mols[i], i - 1)]

\* [i for i, g in enumerate(graphs) if g is not None], 0-based indices in
\* increasing order.
RECURSIVE NotNoneFrom(_, _)
NotNoneFrom(gs, i) ==
  IF i > Len(gs) THEN << >>
  ELSE (IF gs[i].none THEN << >> ELSE << i - 1 >>) \o NotNoneFrom(gs, i + 1)

graphs_not_none_indices(gs) == NotNoneFrom(gs, 1)

InSeq(x, s) == \E j \in 1..Len(s) : s[j] = x

\* A membership test that looks at the reactants only.
MissingParticipantReactantsOnly(lb, gs) ==
  \E j \in 1..Len(lb.reactants) :
    ~InSeq(lb.reactants[j], graphs_not_none_indices(gs))

\* The for/else over mol_ids: some d is not in graphs_not_none_indices.
MissingParticipant(lb, gs) ==
  LET mol_ids == lb.reactants \o lb.products
  IN  \E j \in 1..Len(mol_ids) : ~InSeq(mol_ids[j], graphs_not_none_indices(gs))

\* The label dict built for an accepted record.
LabelOf(lb) == [id |-> lb.id, value |-> << "raw", lb.value >>]

\* (values - mean) / std with mean and std as given.
Scale(v, mean, std) == << "scaled", v, mean, std >>

\* ------------------------------------------------------------------------
\* create_rxn_graph (bondnet.data.utils), described by the design document:
\* the mapping tables of each side must have one entry per participant and
\* be a partition of the unified index space, whose size is the sum of the
\* participants' sizes; anything else is an error.
\* ------------------------------------------------------------------------
\* Number of (participant, local index) pairs of one side mapped to u.
Writers(maps, u) ==
  Cardinality({pl \in UNION {{<< q, l >> : l \in 1..Len(maps[q])} : q \in 1..Len(maps)} :
                 maps[pl[1]][pl[2]] = u})

IsPartition(maps, total) ==
  /\ \A q \in 1..Len(maps) : \A l \in 1..Len(maps[q]) :
       maps[q][l] \in 0..(total - 1)
  /\ \A u \in 0..(total - 1) : Writers(maps, u) = 1

RECURSIVE SumAtoms(_)
SumAtoms(gs) == IF gs = << >> THEN 0 ELSE Head(gs).natoms + SumAtoms(Tail(gs))

RECURSIVE SumBonds(_)
SumBonds(gs) == IF gs = << >> THEN 0 ELSE Head(gs).nbonds + SumBonds(Tail(gs))

SideAccepted(gs, amap, bmap, total_atoms, total_bonds) ==
  /\ Len(amap) = Len(gs)
  /\ Len(bmap) = Len(gs)
  /\ \A q \in 1..Len(gs) : Len(amap[q]) = gs[q].natoms
  /\ \A q \in 1..Len(gs) : Len(bmap[q]) = gs[q].nbonds
  /\ SumAtoms(gs) = total_atoms
  /\ SumBonds(gs) = total_bonds
  /\ IsPartition(amap, total_atoms)
  /\ IsPartition(bmap, total_bonds)

create_rxn_graph(rs, ps, rxn) ==
  IF /\ SideAccepted(rs, rxn.atom_mapping[1], rxn.bond_mapping[1],
                     rxn.total_atoms, rxn.total_bonds)
     /\ SideAccepted(ps, rxn.atom_mapping[2], rxn.bond_mapping[2],
                     rxn.total_atoms, rxn.total_bonds)
  THEN [ok |-> TRUE,
        g |-> [id |-> rxn.id, natoms |-> rxn.total_atoms,
               nbonds |-> rxn.total_bonds]]
  ELSE [ok |-> FALSE, g |-> [id |-> rxn.id, natoms |-> 0, nbonds |-> 0]]

\* ------------------------------------------------------------------------
\* _load of the three reaction-network dataset classes
\* ------------------------------------------------------------------------
\* load_state_dict(d) (lines 172-179) reads the keys in this order; a
\* missing key raises KeyError and leaves the later fields as they were.
StateOrder ==
  << "feature_size", "feature_name", "feature_scaler_mean",
     "feature_scaler_std", "label_scaler_mean", "label_scaler_std", "species" >>

FirstMissing(d) ==
  IF \E k \in 1..Len(StateOrder) : d[StateOrder[k]] = MissingKey
  THEN CHOOSE k \in 1..Len(StateOrder) :
         /\ d[StateOrder[k]] = MissingKey
         /\ \A m \in 1..(k - 1) : d[StateOrder[m]] # MissingKey
  ELSE Len(StateOrder) + 1

load_state_dict(st, d) ==
  [f \in StateFields |->
     IF \E k \in 1..(FirstMissing(d) - 1) : StateOrder[k] = f THEN d[f]
     ELSE st[f]]

\* self._species = ["C", "F", "H", ...] (lines 542, 1146)
HardCodedSpecies ==
  << "C", "F", "H", "N", "O", "Mg", "Li", "S", "Cl", "P", "O", "Br" >>

\* get_dataset_species(molecules) (line 883)
DatasetSpecies == << "species of the molecules" >>

\* "get state info" and "get species" (lines 527-542, 875-887, 1131-1146).
\* With a state dict file the fields are loaded from it; then
\* ReactionNetworkDataset takes the species of the state dict and asserts it
\* is not None, or computes it when there is no file; the other two classes
\* overwrite self._species with the hard coded list, and
\* ReactionNetworkDatasetPrecomputed first reads mol.species of every
\* molecule.
GetSpecies ==
  /\ lpc = "species"
  /\ LET loaded == IF state_dict_filename THEN load_state_dict(stored, state_dict)
                   ELSE stored
     IN  IF state_dict_filename /\ FirstMissing(state_dict) <= Len(StateOrder)
         THEN lpc' = "raised" /\ error' = "KeyError" /\ stored' = loaded
         ELSE IF cls = RNDPrecomputed /\ \E i \in 1..Len(molecules) : molecules[i].none
         THEN lpc' = "raised" /\ error' = "AttributeError" /\ stored' = loaded
         ELSE IF cls # RND
         THEN /\ lpc' = "build_graphs"
              /\ error' = error
              /\ stored' = [loaded EXCEPT !.species = HardCodedSpecies]
         ELSE IF ~state_dict_filename
         THEN /\ lpc' = "build_graphs"
              /\ error' = error
              /\ stored' = [loaded EXCEPT !.species = DatasetSpecies]
         ELSE IF loaded.species = NoneValue
         THEN lpc' = "raised" /\ error' = "AssertionError" /\ stored' = loaded
         ELSE lpc' = "build_graphs" /\ error' = error /\ stored' = loaded
  /\ UNCHANGED << inputVars, graphs, molecules_final, li, reactions, labels,
                  failed, reaction_ids, bi, reaction_graphs, printed >>
  /\ UNCHANGED << reaction_network, got >>
  /\ UNCHANGED << storeVars, readVars, splitVars >>

\* graphs = self.build_graphs(...) and "store feature name and size"
\* (lines 547-555, 890-895, 1152-1160).
BuildGraphs ==
  /\ lpc = "build_graphs"
  /\ graphs' = build_graphs(molecules)
  /\ stored' = [stored EXCEPT !.feature_name = << "grapher.feature_name" >>,
                              !.feature_size = << "grapher.feature_size" >>]
  /\ lpc' = "feature"
  /\ UNCHANGED << inputVars, error, molecules_final, li, reactions, labels,
                  failed, reaction_ids, bi, reaction_graphs, printed >>
  /\ UNCHANGED << reaction_network, got >>
  /\ UNCHANGED << storeVars, readVars, splitVars >>

\* HeteroGraphFeatureStandardScaler(mean, std)(graphs_not_none): the graphs
\* scaled with the mean and std handed to the constructor, which the scaler
\* computes from the graphs when they are None.
ScaleGraphs(gs, mean, std) ==
  [i \in 1..Len(gs) |->
     IF gs[i].none THEN gs[i]
     ELSE [gs[i] EXCEPT !.feat = << "scaled", mean, std >>]]

ComputedFeatureMean == << "mean of the graphs' features" >>

ComputedFeatureStd == << "std of the graphs' features" >>

\* "if self.feature_transformer:" (lines 560-596, 900-927, 1165-1201).
\* With a state dict file the stored mean and std must not be None and are
\* handed to the scaler; without one the scaler computes them and they are
\* stored. ReactionNetworkDataset only rescales the graphs that are not
\* None. The other two classes also fill molecules_final, indexing two
\* lists of len(graphs_not_none_indices) elements with the graph indices,
\* and move every graph to the device when one is given.
FeatureTransform ==
  /\ lpc = "feature"
  /\ LET idx == graphs_not_none_indices(graphs)
         k == Len(idx)
         mean == IF state_dict_filename THEN stored.feature_scaler_mean
                 ELSE ComputedFeatureMean
         std == IF state_dict_filename THEN stored.feature_scaler_std
                ELSE ComputedFeatureStd
         kept == [stored EXCEPT !.feature_scaler_mean = mean,
                                !.feature_scaler_std = std]
     IN  IF ~feature_transformer
         THEN /\ lpc' = "reactions"
              /\ UNCHANGED << error, molecules_final, graphs, stored >>
         ELSE IF state_dict_filename
                 /\ (stored.feature_scaler_mean = NoneValue
                     \/ stored.feature_scaler_std = NoneValue)
         THEN /\ lpc' = "raised"
              /\ error' = "AssertionError"
              /\ UNCHANGED << molecules_final, graphs, stored >>
         ELSE IF cls = RND
         THEN /\ lpc' = "reactions"
              /\ graphs' = ScaleGraphs(graphs, mean, std)
              /\ stored' = kept
              /\ UNCHANGED << error, molecules_final >>
         ELSE IF \E j \in 1..k : idx[j] >= k
         THEN /\ lpc' = "raised"
              /\ error' = "IndexError"
              /\ graphs' = ScaleGraphs(graphs, mean, std)
              /\ UNCHANGED << molecules_final, stored >>
         ELSE IF device # "None" /\ \E i \in 1..Len(graphs) : graphs[i].none
         THEN /\ lpc' = "raised"
              /\ error' = "AttributeError"
              /\ graphs' = ScaleGraphs(graphs, mean, std)
              /\ molecules_final' =
                   [defined |-> TRUE, val |-> [j \in 1..k |-> molecules[idx[j] + 1]]]
              /\ UNCHANGED stored
         ELSE /\ lpc' = "reactions"
              /\ error' = error
              /\ graphs' = ScaleGraphs(graphs, mean, std)
              /\ stored' = kept
              /\ molecules_final' =
                   [defined |-> TRUE, val |-> [j \in 1..k |-> molecules[idx[j] + 1]]]
  /\ UNCHANGED << inputVars, li, reactions, labels, failed, reaction_ids, bi,
                  reaction_graphs, printed >>
  /\ UNCHANGED << reaction_network, got >>
  /\ UNCHANGED << storeVars, readVars, splitVars >>

\* A loop that puts the new label in front of self.labels.
CreateReactionLabelInFront ==
  /\ lpc = "reactions"
  /\ li < Len(raw_labels)
  /\ LET lb == raw_labels[li + 1]
     IN  IF MissingParticipant(lb, graphs)
         THEN /\ failed' = Append(failed, TRUE)
              /\ UNCHANGED << reactions, labels >>
         ELSE /\ reactions' = Append(reactions, lb)
              /\ labels' = << LabelOf(lb) >> \o labels
              /\ failed' = Append(failed, FALSE)
  /\ li' = li + 1
  /\ UNCHANGED << inputVars, lpc, error, graphs, molecules_final,
                  reaction_ids, bi, reaction_graphs, printed >>
  /\ UNCHANGED << stored, reaction_network, got >>
  /\ UNCHANGED << storeVars, readVars, splitVars >>

\* One iteration of "for i, lb in enumerate(raw_labels)" (lines 602-669,
\* 933-963, 1207-1274).
CreateReaction ==
  /\ lpc = "reactions"
  /\ li < Len(raw_labels)
  /\ LET lb == raw_labels[li + 1]
     IN  IF MissingParticipant(lb, graphs)
         THEN /\ failed' = Append(failed, TRUE)
              /\ UNCHANGED << reactions, labels >>
         ELSE /\ reactions' = Append(reactions, lb)
              /\ labels' = Append(labels, LabelOf(lb))
              /\ failed' = Append(failed, FALSE)
  /\ li' = li + 1
  /\ UNCHANGED << inputVars, lpc, error, graphs, molecules_final,
                  reaction_ids, bi, reaction_graphs, printed >>
  /\ UNCHANGED << stored, reaction_network, got >>
  /\ UNCHANGED << storeVars, readVars, splitVars >>

\* After the loop: reaction_ids and the ReactionNetwork (lines 671-674,
\* 965-968, 1276-1279). Two of the classes pass molecules_final, which is
\* only bound inside "if self.feature_transformer:".
CreateNetwork ==
  /\ lpc = "reactions"
  /\ li = Len(raw_labels)
  /\ reaction_ids' = [j \in 1..Len(reactions) |-> j - 1]
  /\ IF cls # RND /\ ~molecules_final.defined
     THEN /\ lpc' = "raised"
          /\ error' = "UnboundLocalError"
          /\ UNCHANGED reaction_network
     ELSE /\ lpc' = IF cls = RNDPrecomputed THEN "rxn_graphs" ELSE "label"
          /\ error' = error
          /\ reaction_network' =
               [object |-> 1, graphs |-> graphs, reactions |-> reactions]
  /\ UNCHANGED << inputVars, graphs, molecules_final, li, reactions, labels,
                  failed, bi, reaction_graphs, printed >>
  /\ UNCHANGED << stored, got >>
  /\ UNCHANGED << storeVars, readVars, splitVars >>

\* [graphs[i] for i in ids]
GraphsOf(gs, ids) == [j \in 1..Len(ids) |-> gs[ids[j] + 1]]

\* A loop that catches the exception of create_rxn_graph and appends what
\* it has.
BuildReactionGraphAppendsAnyway ==
  /\ lpc = "rxn_graphs"
  /\ bi < Len(reactions)
  /\ LET rxn == reactions[bi + 1]
         rs == GraphsOf(graphs, rxn.reactants)
         ps == GraphsOf(graphs, rxn.products)
         res == create_rxn_graph(rs, ps, rxn)
     IN  /\ printed' =
              IF Len(rxn.bond_mapping[1]) # Len(rs) \/ Len(rxn.bond_mapping[2]) # Len(ps)
              THEN printed \cup {"unequal mapping & graph len"}
              ELSE printed
         /\ reaction_graphs' = Append(reaction_graphs, res.g)
         /\ bi' = bi + 1
         /\ UNCHANGED << lpc, error >>
  /\ UNCHANGED << inputVars, graphs, molecules_final, li, reactions, labels,
                  failed, reaction_ids >>
  /\ UNCHANGED << stored, reaction_network, got >>
  /\ UNCHANGED << storeVars, readVars, splitVars >>

\* A loop that catches the exception of create_rxn_graph and goes on with
\* the next reaction.
BuildReactionGraphContinues ==
  /\ lpc = "rxn_graphs"
  /\ bi < Len(reactions)
  /\ LET rxn == reactions[bi + 1]
         rs == GraphsOf(graphs, rxn.reactants)
         ps == GraphsOf(graphs, rxn.products)
         res == create_rxn_graph(rs, ps, rxn)
     IN  /\ printed' =
              IF Len(rxn.bond_mapping[1]) # Len(rs) \/ Len(rxn.bond_mapping[2]) # Len(ps)
              THEN printed \cup {"unequal mapping & graph len"}
              ELSE printed
         /\ reaction_graphs' =
              IF res.ok THEN Append(reaction_graphs, res.g) ELSE reaction_graphs
         /\ bi' = bi + 1
         /\ UNCHANGED << lpc, error >>
  /\ UNCHANGED << inputVars, graphs, molecules_final, li, reactions, labels,
                  failed, reaction_ids >>
  /\ UNCHANGED << stored, reaction_network, got >>
  /\ UNCHANGED << storeVars, readVars, splitVars >>

\* One iteration of "for rxn in reactions" of build_reaction_graphs (lines
\* 1383-1417): a length mismatch is printed, the graph create_rxn_graph
\* returns is appended, an exception of create_rxn_graph is not caught.
BuildReactionGraph ==
  /\ lpc = "rxn_graphs"
  /\ bi < Len(reactions)
  /\ LET rxn == reactions[bi + 1]
         rs == GraphsOf(graphs, rxn.reactants)
         ps == GraphsOf(graphs, rxn.products)
         res == create_rxn_graph(rs, ps, rxn)
     IN  /\ printed' =
              IF Len(rxn.bond_mapping[1]) # Len(rs) \/ Len(rxn.bond_mapping[2]) # Len(ps)
              THEN printed \cup {"unequal mapping & graph len"}
              ELSE printed
         /\ IF res.ok
            THEN /\ reaction_graphs' = Append(reaction_graphs, res.g)
                 /\ bi' = bi + 1
                 /\ UNCHANGED << lpc, error >>
            ELSE /\ lpc' = "raised"
                 /\ error' = "StructuralMappingError"
                 /\ UNCHANGED << reaction_graphs, bi >>
  /\ UNCHANGED << inputVars, graphs, molecules_final, li, reactions, labels,
                  failed, reaction_ids >>
  /\ UNCHANGED << stored, reaction_network, got >>
  /\ UNCHANGED << storeVars, readVars, splitVars >>

\* build_reaction_graphs returns (lines 1419-1442).
BuildReactionGraphsReturn ==
  /\ lpc = "rxn_graphs"
  /\ bi = Len(reactions)
  /\ lpc' = "label"
  /\ UNCHANGED << inputVars, error, graphs, molecules_final, li, reactions,
                  labels, failed, reaction_ids, bi, reaction_graphs, printed >>
  /\ UNCHANGED << stored, reaction_network, got >>
  /\ UNCHANGED << storeVars, readVars, splitVars >>

\* The second loop of build_reaction_graphs (lines 1419-1440) over what
\* create_rxn_graph returned: a graph with its nodes of each type, and the
\* feature rows of the node types that have features.
NodeTypes == {"atom", "bond", "global"}

number_of_nodes(g) == g.nodes["atom"] + g.nodes["bond"] + g.nodes["global"]

TotalFeats(fts) ==
  LET rows(nt) == IF nt \in DOMAIN fts THEN fts[nt] ELSE 0
  IN  rows("atom") + rows("bond") + rows("global")

\* g.nodes[nt].data.update({"ft": ft}) (line 1428): the graph library
\* raises DGLError when ft has not one row for each node of type nt.
UpdateRaises(pair) ==
  \E nt \in DOMAIN pair.fts : pair.fts[nt] # pair.g.nodes[nt]

RECURSIVE AuditFrom(_, _, _)
AuditFrom(pairs, ind, out) ==
  IF ind > Len(pairs) THEN [raised |-> FALSE, printed |-> out]
  ELSE IF UpdateRaises(pairs[ind]) THEN [raised |-> TRUE, printed |-> out]
  ELSE AuditFrom(pairs, ind + 1,
                 IF TotalFeats(pairs[ind].fts) # number_of_nodes(pairs[ind].g)
                 THEN out \cup {<< "mismatch", ind - 1 >>}
                 ELSE out)

\* Lines 1419-1442 for the graphs and feature sets of the first loop: a
\* total that differs from the node count is printed, the two lists are
\* returned; an exception of the update ends the function.
AuditReactionGraphs ==
  /\ lpc = "audit"
  /\ LET r == AuditFrom(reaction_graphs, 1, {})
     IN  /\ printed' = r.printed
         /\ lpc' = IF r.raised THEN "raised" ELSE "returned"
         /\ error' = IF r.raised THEN "DGLError" ELSE ""
  /\ UNCHANGED << inputVars, graphs, molecules_final, li, reactions, labels,
                  failed, reaction_ids, bi, reaction_graphs >>
  /\ UNCHANGED << stored, reaction_network, got >>
  /\ UNCHANGED << storeVars, readVars, splitVars >>

\* torch.mean(values), torch.std(values)
ComputedLabelMean(values) == << "mean", values >>

ComputedLabelStd(values) == << "std", values >>

\* A transformer that computes the statistics when the state dict file
\* holds None for them.
LabelTransformRecomputes ==
  /\ lpc = "label"
  /\ IF ~label_transformer
     THEN lpc' = "done" /\ UNCHANGED << error, labels, stored >>
     ELSE IF labels = << >>
     THEN lpc' = "raised" /\ error' = "RuntimeError" /\ UNCHANGED << labels, stored >>
     ELSE LET values == [j \in 1..Len(labels) |-> labels[j].value]
              given == /\ state_dict_filename
                       /\ stored.label_scaler_mean # NoneValue
                       /\ stored.label_scaler_std # NoneValue
              mean == IF given THEN stored.label_scaler_mean
                      ELSE ComputedLabelMean(values)
              std == IF given THEN stored.label_scaler_std
                     ELSE ComputedLabelStd(values)
          IN  /\ labels' = [j \in 1..Len(labels) |->
                              [labels[j] EXCEPT !.value = Scale(@, mean, std)]]
              /\ stored' = [stored EXCEPT !.label_scaler_mean = mean,
                                          !.label_scaler_std = std]
              /\ lpc' = "done"
              /\ error' = error
  /\ UNCHANGED << inputVars, graphs, molecules_final, li, reactions, failed,
                  reaction_ids, bi, reaction_graphs, printed >>
  /\ UNCHANGED << reaction_network, got >>
  /\ UNCHANGED << storeVars, readVars, splitVars >>

\* "if self.label_transformer:" (lines 677-710, 971-1001, 1286-1319):
\* torch.stack of an empty list raises; without a state dict file the mean
\* and std are computed from the values and stored; with one the stored
\* mean and std must not be None and are used.
LabelTransform ==
  /\ lpc = "label"
  /\ IF ~label_transformer
     THEN lpc' = "done" /\ UNCHANGED << error, labels, stored >>
     ELSE IF labels = << >>
     THEN lpc' = "raised" /\ error' = "RuntimeError" /\ UNCHANGED << labels, stored >>
     ELSE IF state_dict_filename
             /\ (stored.label_scaler_mean = NoneValue \/ stored.label_scaler_std = NoneValue)
     THEN lpc' = "raised" /\ error' = "AssertionError" /\ UNCHANGED << labels, stored >>
     ELSE LET values == [j \in 1..Len(labels) |-> labels[j].value]
              mean == IF state_dict_filename THEN stored.label_scaler_mean
                      ELSE ComputedLabelMean(values)
              std == IF state_dict_filename THEN stored.label_scaler_std
                     ELSE ComputedLabelStd(values)
          IN  /\ labels' = [j \in 1..Len(labels) |->
                              [labels[j] EXCEPT !.value = Scale(@, mean, std)]]
              /\ stored' = [stored EXCEPT !.label_scaler_mean = mean,
                                          !.label_scaler_std = std]
              /\ lpc' = "done"
              /\ error' = error
  /\ UNCHANGED << inputVars, graphs, molecules_final, li, reactions, failed,
                  reaction_ids, bi, reaction_graphs, printed >>
  /\ UNCHANGED << reaction_network, got >>
  /\ UNCHANGED << storeVars, readVars, splitVars >>

\* dataset[item] for 0 <= item < len(dataset) (lines 758-760, 1045-1047,
\* 1367-1373): the network, the reaction id and the label; the precomputed
\* class returns the reaction graph and its features instead.
GetItem(item) ==
  /\ lpc = "done"
  /\ item \in 0..(Len(reaction_ids) - 1)
  /\ got' = IF cls = RNDPrecomputed
            THEN [item |-> item, rn |-> reaction_graphs[item + 1],
                  rxn |-> << "reaction_features", item >>,
                  lb |-> labels[item + 1]]
            ELSE [item |-> item, rn |-> reaction_network,
                  rxn |-> reaction_ids[item + 1], lb |-> labels[item + 1]]
  /\ UNCHANGED << inputVars, lpc, error, graphs, molecules_final, li,
                  reactions, labels, failed, reaction_ids, bi, reaction_graphs,
                  printed, stored, reaction_network >>
  /\ UNCHANGED << storeVars, readVars, splitVars >>

\* ------------------------------------------------------------------------
\* MoleculeDataset (dataset.py lines 277-445)
\* ------------------------------------------------------------------------
MoleculeDataset == "MoleculeDataset"

\* Exact quotients: a fraction in lowest terms with a positive denominator.
RECURSIVE Gcd(_, _)
Gcd(a, b) == IF b = 0 THEN a ELSE Gcd(b, a % b)

Abs(a) == IF a < 0 THEN 0 - a ELSE a

Frac(num, den) ==
  LET g == Gcd(Abs(num), den)
  IN  IF num = 0 THEN [num |-> 0, den |-> 1]
      ELSE [num |-> num \div g, den |-> den \div g]

\* x * k + m for a fraction x and integers k, m.
FracMulAdd(x, k, m) == Frac(x.num * k + m * x.den, x.den)

\* _read_label_file (lines 406-445) supports one property only,
\* "atomization_energy", with unit conversion 1.0 and extensive: every
\* is_ext of the loop over the columns (line 366) is True.

\* An extensive value recorded with a standard deviation of one.
ExtensiveScaledUnitStd(y, natoms) ==
  [value |-> Frac(y, natoms), scaler_mean |-> 0, scaler_stdev |-> 1]

\* The is_ext branch (lines 367-374) for one sample: lb = y / natoms,
\* mean = 0, std = natoms.
ExtensiveScaled(y, natoms) ==
  [value |-> Frac(y, natoms), scaler_mean |-> 0, scaler_stdev |-> natoms]

\* The loop over zip(molecules, features, raw_labels) (lines 319-339): the
\* positions, 0-based, of the molecules that are not None.
RECURSIVE KeptFrom(_, _, _)
KeptFrom(mols, rows, i) ==
  IF i > Len(mols) \/ i > Len(rows) THEN << >>
  ELSE (IF mols[i].none THEN << >> ELSE << i - 1 >>) \o KeptFrom(mols, rows, i + 1)

\* MoleculeDataset._load (lines 301-404). With label_transformer and no
\* label kept, labels[:, i] of the empty array raises IndexError.
MoleculeLoad ==
  /\ cls = MoleculeDataset
  /\ lpc = "load"
  /\ LET kept == KeptFrom(molecules, raw_labels, 1)
         gs == [k \in 1..Len(kept) |->
                  build_graph(molecules[kept[k] + 1], kept[k])]
         plain == [k \in 1..Len(kept) |->
                     [value |-> << raw_labels[kept[k] + 1][1] >>,
                      id |-> kept[k]]]
         scaled == [k \in 1..Len(kept) |->
                      LET sc == ExtensiveScaled(raw_labels[kept[k] + 1][1],
                                                molecules[kept[k] + 1].natoms)
                      IN  [value |-> << sc.value >>, id |-> kept[k],
                           scaler_mean |-> << sc.scaler_mean >>,
                           scaler_stdev |-> << sc.scaler_stdev >>]]
     IN  /\ graphs' = IF feature_transformer
                      THEN ScaleGraphs(gs, ComputedFeatureMean, ComputedFeatureStd)
                      ELSE gs
         /\ stored' = [stored EXCEPT !["feature_name"] = Given("feature_name"),
                                     !["feature_size"] = Given("feature_size")]
         /\ IF label_transformer /\ kept = << >>
            THEN /\ labels' = plain
                 /\ error' = "IndexError"
                 /\ lpc' = "raised"
            ELSE /\ labels' = IF label_transformer THEN scaled ELSE plain
                 /\ error' = ""
                 /\ lpc' = "done"
  /\ UNCHANGED << inputVars, molecules_final, li, reactions, failed,
                  reaction_ids, bi, reaction_graphs, printed, reaction_network,
                  got >>
  /\ UNCHANGED << storeVars, readVars, splitVars >>

\* BaseDataset.__getitem__ (lines 241-258) for 0 <= item < len(self).
MoleculeGetItem(item) ==
  /\ cls = MoleculeDataset
  /\ lpc = "done"
  /\ item \in 0..(Len(labels) - 1)
  /\ got' = [item |-> item, g |-> graphs[item + 1], lb |-> labels[item + 1]]
  /\ UNCHANGED << inputVars, lpc, error, graphs, molecules_final, li,
                  reactions, labels, failed, reaction_ids, bi, reaction_graphs,
                  printed, stored, reaction_network >>
  /\ UNCHANGED << storeVars, readVars, splitVars >>

\* ------------------------------------------------------------------------
\* ElectrolyteDataset (gnn/data/electrolyte.py lines 18-184)
\* ------------------------------------------------------------------------
ElectrolyteDataset == "ElectrolyteDataset"

\* prop[:nbonds] and prop[nbonds:] with nbonds = len(prop) // 2.
Energies(prop) == SubSeq(prop, 1, Len(prop) \div 2)

Indicators(prop) == SubSeq(prop, (Len(prop) \div 2) + 1, Len(prop))

\* torch.cat of the labels' values (lines 164-165).
RECURSIVE CatValues(_)
CatValues(rows) ==
  IF rows = << >> THEN << >> ELSE Energies(Head(rows)) \o CatValues(Tail(rows))

\* ElectrolyteDataset._load (lines 96-184): the entries of the sdf file
\* are paired with the rows of the label file, an entry that is None is
\* passed over with its row; with label_transformer the values are
\* replaced by the standardized ones, and torch.cat of an empty list raises
\* RuntimeError.
ElectrolyteLoad ==
  /\ cls = ElectrolyteDataset
  /\ lpc = "load"
  /\ LET kept == KeptFrom(molecules, raw_labels, 1)
         gs == [k \in 1..Len(kept) |->
                  build_graph(molecules[kept[k] + 1], kept[k])]
         rows == [k \in 1..Len(kept) |-> raw_labels[kept[k] + 1]]
         all == CatValues(rows)
         plain == [k \in 1..Len(kept) |->
                     [value |-> << "raw", Energies(rows[k]) >>,
                      indicator |-> Indicators(rows[k])]]
         scaled == [k \in 1..Len(kept) |->
                      [value |-> Scale(Energies(rows[k]), ComputedLabelMean(all),
                                       ComputedLabelStd(all)),
                       indicator |-> Indicators(rows[k])]]
     IN  /\ graphs' = IF feature_transformer
                      THEN ScaleGraphs(gs, ComputedFeatureMean, ComputedFeatureStd)
                      ELSE gs
         /\ stored' = [stored EXCEPT !["feature_name"] = Given("feature_name"),
                                     !["feature_size"] = Given("feature_size")]
         /\ IF label_transformer /\ kept = << >>
            THEN /\ labels' = plain
                 /\ error' = "RuntimeError"
                 /\ lpc' = "raised"
            ELSE /\ labels' = IF label_transformer THEN scaled ELSE plain
                 /\ error' = ""
                 /\ lpc' = "done"
  /\ UNCHANGED << inputVars, molecules_final, li, reactions, failed,
                  reaction_ids, bi, reaction_graphs, printed, reaction_network,
                  got >>
  /\ UNCHANGED << storeVars, readVars, splitVars >>

\* ------------------------------------------------------------------------
\* one_hot_encoding and its callers (gnn/data/featurizer.py)
\* ------------------------------------------------------------------------
\* The element symbols of the model, in the order Python sorts strings.
SymbolOrder ==
  << "Br", "C", "Cl", "F", "H", "Li", "Mg", "N", "O", "P", "S" >>

\* The elements of list l equal to x, as many times as they occur.
RECURSIVE Occurrences(_, _)
Occurrences(l, x) ==
  IF l = << >> THEN << >>
  ELSE (IF Head(l) = x THEN << x >> ELSE << >>) \o Occurrences(Tail(l), x)

\* sorted(l) for a list of element symbols.
RECURSIVE SortedFrom(_, _)
SortedFrom(l, i) ==
  IF i > Len(SymbolOrder) THEN << >>
  ELSE Occurrences(l, SymbolOrder[i]) \o SortedFrom(l, i + 1)

sorted(l) == SortedFrom(l, 1)

\* list(S) of a set of symbols, in some order of the set's own.
RECURSIVE ListOfFrom(_, _)
ListOfFrom(S, i) ==
  IF i = 0 THEN << >>
  ELSE (IF SymbolOrder[i] \in S THEN << SymbolOrder[i] >> ELSE << >>)
       \o ListOfFrom(S, i - 1)

ListOf(S) == ListOfFrom(S, Len(SymbolOrder))

\* one_hot_encoding(x, allowable_set) (lines 679-695)
one_hot_encoding(x, allowable_set) ==
  [i \in 1..Len(allowable_set) |-> IF x = allowable_set[i] THEN 1 ELSE 0]

\* AtomFeaturizer.__call__ for one atom (lines 426-475, 577): the symbol of
\* the atom encoded over sorted(kwargs["dataset_species"]).
AtomSpeciesOneHot(symbol, dataset_species) ==
  /\ lpc = "featurize"
  /\ LET species == sorted(dataset_species)
     IN  got' = [x |-> symbol, allowable_set |-> species,
                 out |-> one_hot_encoding(symbol, species)]
  /\ UNCHANGED << inputVars, lpc, error, graphs, molecules_final, li,
                  reactions, labels, failed, reaction_ids, bi, reaction_graphs,
                  printed, stored, reaction_network >>
  /\ UNCHANGED << storeVars, readVars, splitVars >>

\* The global featurizer (lines 631-632): charge over [-1, 0, 1] and spin
\* multiplicity over [1, 2].
GlobalOneHot(x, allowable_set) ==
  /\ lpc = "featurize"
  /\ got' = [x |-> x, allowable_set |-> allowable_set,
             out |-> one_hot_encoding(x, allowable_set)]
  /\ UNCHANGED << inputVars, lpc, error, graphs, molecules_final, li,
                  reactions, labels, failed, reaction_ids, bi, reaction_graphs,
                  printed, stored, reaction_network >>
  /\ UNCHANGED << storeVars, readVars, splitVars >>

\* ------------------------------------------------------------------------
\* LmdbDataset (lmdb_dataset.py lines 20-121)
\* ------------------------------------------------------------------------
\* The files a reader may be pointed at: the samples "0" .. "n-1", with or
\* without the "length" record, with or without the metadata records.
StoreOf(n, hasLength, hasMeta) ==
  LET a == PutSamples(EmptyKV, 0, n)
      b == IF hasLength THEN Put(a, KeyLength, Dumps(n)) ELSE a
  IN  IF hasMeta THEN PutMeta(b, Len(meta_keys)) ELSE b

\* env.stat()["entries"]
Entries(kv) == Cardinality(DOMAIN kv)

\* A split that gives the whole remainder to the last bin.
array_splitRemainderLast(n, t) ==
  [c \in 1..t |->
     LET size == (n \div t) + (IF c = t THEN n % t ELSE 0)
         off == (c - 1) * (n \div t)
     IN  [j \in 1..size |-> off + j - 1]]

\* np.array_split(range(n), t): t consecutive bins, the first n % t of
\* size n // t + 1, the others of size n // t.
array_split(n, t) ==
  [c \in 1..t |->
     LET size == (n \div t) + (IF c <= n % t THEN 1 ELSE 0)
         off == (c - 1) * (n \div t) + (IF c - 1 < n % t THEN c - 1 ELSE n % t)
     IN  [j \in 1..size |-> off + j - 1]]

\* LmdbDataset.__init__ (lines 26-63) with config["shard"] = r. Neither
\* branch of the "length" test (lines 39-44) prints, warns, logs or sets an
\* attribute that tells the two apart.
ReaderOpen(r) ==
  /\ ~rd[r].open
  /\ r < (IF total_shards = 0 THEN 1 ELSE total_shards)
  /\ LET num_entries == IF KeyLength \in DOMAIN src THEN Loads(src[KeyLength])
                         ELSE Entries(src)
         sharded == total_shards > 0
         available_indices == IF sharded
                              THEN array_split(num_entries, total_shards)[r + 1]
                              ELSE << >>
     IN  rd' = [rd EXCEPT ![r] =
                  [open |-> TRUE, num_entries |-> num_entries,
                   sharded |-> sharded,
                   available_indices |-> available_indices,
                   num_samples |-> IF sharded THEN Len(available_indices)
                                   ELSE num_entries,
                   reported |-> << >>]]
  /\ UNCHANGED << src, total_shards, rgot >>
  /\ UNCHANGED << storeVars, loadVars, splitVars >>

\* LmdbDataset.__getitem__(idx) (lines 68-84) for 0 <= idx < len(self),
\* transform is None: pickle.loads of the None that env.get returns for a
\* missing key raises TypeError.
ReaderGet(r, idx) ==
  /\ rd[r].open
  /\ idx \in 0..(rd[r].num_samples - 1)
  /\ LET i == IF rd[r].sharded THEN rd[r].available_indices[idx + 1] ELSE idx
         key == Str(i)
     IN  rgot' = [reader |-> r, idx |-> idx, key |-> key,
                  result |-> IF key \in DOMAIN src
                             THEN << "returned", Loads(src[key]) >>
                             ELSE << "TypeError" >>]
  /\ UNCHANGED << src, total_shards, rd >>
  /\ UNCHANGED << storeVars, loadVars, splitVars >>

\* ------------------------------------------------------------------------
\* Subset and the split functions (dataset.py lines 1445-1562)
\* ------------------------------------------------------------------------
\* The ids the labels of a dataset carry.
LabelIds == {"a", "b"}

\* validation and test are multiples of 1/4, which a float holds exactly,
\* so that int(size * validation) is the floor of the exact product.
Quarters == 0..3

IntOfProduct(size, q) == (size * q) \div 4

\* dataset[i] of a dataset whose items are (graph, label) pairs.
DatasetItem(i) == [index |-> i, id |-> dataset[i + 1]]

\* s[a:b] for 0 <= a, 0 <= b.
Slice(s, a, b) ==
  LET hi == IF b < Len(s) THEN b ELSE Len(s)
  IN  IF a >= hi THEN << >> ELSE SubSeq(s, a + 1, hi)

\* np.random.permutation(size) / np.random.permutation(list)
Permuted(items, perm) == [j \in 1..Len(items) |-> items[perm[j]]]

\* groups[label["id"]].append(i) for i, (_, label) in enumerate(dataset);
\* groups = [val for key, val in groups.items()]: the index lists of the
\* ids, in the order in which the ids first occur (lines 1536-1539).
RECURSIVE FirstIds(_, _)
FirstIds(ds, i) ==
  IF i > Len(ds) THEN << >>
  ELSE (IF \E j \in 1..(i - 1) : ds[j] = ds[i] THEN << >> ELSE << ds[i] >>)
       \o FirstIds(ds, i + 1)

RECURSIVE IndicesOf(_, _, _)
IndicesOf(ds, id, i) ==
  IF i > Len(ds) THEN << >>
  ELSE (IF ds[i] = id THEN << i - 1 >> ELSE << >>) \o IndicesOf(ds, id, i + 1)

Groups(ds) ==
  LET ids == FirstIds(ds, 1)
  IN  [g \in 1..Len(ids) |-> IndicesOf(ds, ids[g], 1)]

\* A loop that moves single records to the test set.
RECURSIVE FillTestPerRecord(_, _, _, _, _)
FillTestPerRecord(groups, order, num_test, te, tv) ==
  IF order = << >> THEN [test_idx |-> te, train_val_idx |-> tv]
  ELSE LET g == groups[Head(order)]
           k == IF num_test - Len(te) > 0 THEN num_test - Len(te) ELSE 0
       IN  FillTestPerRecord(groups, Tail(order), num_test,
                             te \o Slice(g, 0, k), tv \o Slice(g, k, Len(g)))

\* "for i in idx" (lines 1545-1551): a whole group goes to the test set as
\* long as the test set holds fewer than num_test records.
RECURSIVE FillTest(_, _, _, _, _)
FillTest(groups, order, num_test, te, tv) ==
  IF order = << >> THEN [test_idx |-> te, train_val_idx |-> tv]
  ELSE IF Len(te) < num_test
  THEN FillTest(groups, Tail(order), num_test, te \o groups[Head(order)], tv)
  ELSE FillTest(groups, Tail(order), num_test, te, tv \o groups[Head(order)])

\* "assert validation + test < 1.0" fails (lines 1485, 1529).
SplitAssertFails ==
  /\ spc = "call"
  /\ validation + test >= 4
  /\ spc' = "raised"
  /\ UNCHANGED << dataset, validation, test, train_idx, val_idx, test_idx, sgot >>
  /\ UNCHANGED << storeVars, loadVars, readVars >>

\* A test slice that starts where the validation slice starts.
SplitRandomTestFromTrainEnd(perm) ==
  /\ spc = "call"
  /\ validation + test < 4
  /\ DOMAIN perm = 1..Len(dataset)
  /\ LET size == Len(dataset)
         num_val == IntOfProduct(size, validation)
         num_test == IntOfProduct(size, test)
         num_train == size - num_val - num_test
         idx == [j \in 1..size |-> perm[j] - 1]
     IN  /\ train_idx' = Slice(idx, 0, num_train)
         /\ val_idx' = Slice(idx, num_train, num_train + num_val)
         /\ test_idx' = Slice(idx, num_train, size)
  /\ spc' = "split"
  /\ UNCHANGED << dataset, validation, test, sgot >>
  /\ UNCHANGED << storeVars, loadVars, readVars >>

\* train_validation_test_split (lines 1466-1501) with the permutation
\* np.random.permutation(size) draws.
SplitRandom(perm) ==
  /\ spc = "call"
  /\ validation + test < 4
  /\ DOMAIN perm = 1..Len(dataset)
  /\ LET size == Len(dataset)
         num_val == IntOfProduct(size, validation)
         num_test == IntOfProduct(size, test)
         num_train == size - num_val - num_test
         idx == [j \in 1..size |-> perm[j] - 1]
     IN  /\ train_idx' = Slice(idx, 0, num_train)
         /\ val_idx' = Slice(idx, num_train, num_train + num_val)
         /\ test_idx' = Slice(idx, num_train + num_val, size)
  /\ spc' = "split"
  /\ UNCHANGED << dataset, validation, test, sgot >>
  /\ UNCHANGED << storeVars, loadVars, readVars >>

\* A grouped split that fills the test set record by record.
SplitGroupedPerRecord(gperm, perm) ==
  /\ spc = "call"
  /\ validation + test < 4
  /\ LET size == Len(dataset)
         num_val == IntOfProduct(size, validation)
         num_test == IntOfProduct(size, test)
         num_train == size - num_val - num_test
         groups == Groups(dataset)
     IN  /\ DOMAIN gperm = 1..Len(groups)
         /\ LET r == FillTestPerRecord(groups, gperm, num_test, << >>, << >>)
                idx == Permuted(r.train_val_idx, perm)
            IN  /\ DOMAIN perm = 1..Len(r.train_val_idx)
                /\ train_idx' = Slice(idx, 0, num_train)
                /\ val_idx' = Slice(idx, num_train, Len(idx))
                /\ test_idx' = r.test_idx
  /\ spc' = "split_grouped"
  /\ UNCHANGED << dataset, validation, test, sgot >>
  /\ UNCHANGED << storeVars, loadVars, readVars >>

\* train_validation_test_split_test_with_all_bonds_of_mol (lines
\* 1504-1562) with the two permutations it draws: of the groups, and of the
\* records left for training and validation.
SplitGrouped(gperm, perm) ==
  /\ spc = "call"
  /\ validation + test < 4
  /\ LET size == Len(dataset)
         num_val == IntOfProduct(size, validation)
         num_test == IntOfProduct(size, test)
         num_train == size - num_val - num_test
         groups == Groups(dataset)
     IN  /\ DOMAIN gperm = 1..Len(groups)
         /\ LET r == FillTest(groups, gperm, num_test, << >>, << >>)
                idx == Permuted(r.train_val_idx, perm)
            IN  /\ DOMAIN perm = 1..Len(r.train_val_idx)
                /\ train_idx' = Slice(idx, 0, num_train)
                /\ val_idx' = Slice(idx, num_train, Len(idx))
                /\ test_idx' = r.test_idx
  /\ spc' = "split_grouped"
  /\ UNCHANGED << dataset, validation, test, sgot >>
  /\ UNCHANGED << storeVars, loadVars, readVars >>

\* The calls, with every permutation np.random.permutation can draw.
SplitRandomCall ==
  /\ spc = "call"
  /\ \E perm \in IndexPerms(Len(dataset)) : SplitRandom(perm)

SplitGroupedCall ==
  /\ spc = "call"
  /\ \E gperm \in IndexPerms(Len(Groups(dataset))) :
       \E k \in 0..Len(dataset) :
         \E perm \in IndexPerms(k) : SplitGrouped(gperm, perm)

\* The indices of the three Subset objects returned.
SubsetIndices(which) ==
  IF which = "train" THEN train_idx
  ELSE IF which = "validation" THEN val_idx ELSE test_idx

\* Subset.__getitem__(k) (lines 1459-1460) for 0 <= k < len(subset).
SubsetGet(which, k) ==
  /\ spc \in {"split", "split_grouped"}
  /\ k \in 0..(Len(SubsetIndices(which)) - 1)
  /\ sgot' = [subset |-> which, k |-> k,
              item |-> DatasetItem(SubsetIndices(which)[k + 1])]
  /\ UNCHANGED << dataset, validation, test, spc, train_idx, val_idx, test_idx >>
  /\ UNCHANGED << storeVars, loadVars, readVars >>

\* ------------------------------------------------------------------------
\* Specifications
\* ------------------------------------------------------------------------
\* The first CRNs2lmdb call on an out_path.
FirstCall(n, w, perm) ==
  /\ mpc = "idle"
  /\ CRNs2lmdbStart(n, w, perm)

\* A later CRNs2lmdb call with the same out_path and output_file, after the
\* previous call returned or raised.
NextCall(n, w, perm) ==
  /\ mpc \in {"done", "raised"}
  /\ run < MaxRuns
  /\ CRNs2lmdbStart(n, w, perm)

\* One CRNs2lmdb call on a fresh out_path.
Init == StoreInit /\ LoadIdle /\ ReadIdle /\ SplitIdle

Next ==
  \/ \E n \in 0..MaxSamples, w \in 1..MaxWorkers :
       \E perm \in IndexPerms(n) : FirstCall(n, w, perm)
  \/ PoolMapReturn
  \/ \E i \in Workers : WriterOpen(i)
  \/ \E i \in Workers : WriterPutSample(i)
  \/ \E i \in Workers : WriterPutLength(i)
  \/ \E i \in Workers : WriterPutMeta(i)
  \/ \E i \in Workers : WriterSyncClose(i)
  \/ \E i \in Workers : WriterRaise(i)
  \/ MergeOpen
  \/ MergeShard
  \/ MergeLength
  \/ MergeSyncClose
  \/ CleanupGlob
  \/ \E p \in AllPaths : CleanupRemove(p)
  \/ \E p \in AllPaths : CleanupRemoveFails(p)
  \/ CleanupDone

Spec == Init /\ [][Next]_vars

\* CRNs2lmdb calls repeated on the same out_path.
NextRerun ==
  \/ Next
  \/ \E n \in 0..MaxSamples, w \in 1..MaxWorkers :
       \E perm \in IndexPerms(n) : NextCall(n, w, perm)

SpecRerun == Init /\ [][NextRerun]_vars

\* merge_lmdbs called on shard files that exist already: each was written
\* by write_crns_to_lmdb, and one of them may hold one more key.
InitMerge ==
  /\ \E lens \in [Workers -> 0..MaxShardLen] :
       \E extra \in {<< >>} \cup {<< i, k >> : i \in Workers, k \in ForeignKeys} :
         fs = [p \in AllPaths |->
                 IF p = OutPath THEN NoFile
                 ELSE LET i == p[2]
                          off == SumSeq([j \in 1..i |-> lens[j - 1]])
                          kv == WrittenShard(off, lens[i])
                      IN  [exists |-> TRUE,
                           kv |-> IF extra # << >> /\ extra[1] = i
                                  THEN Put(kv, extra[2], ForeignValue)
                                  ELSE kv]]
  /\ mpc = "merge_open"
  /\ run = 0
  /\ db_paths = [i \in 1..MaxWorkers |-> ShardPath(i - 1)]
  /\ chunks = << >>
  /\ wpc = [i \in Workers |-> "none"]
  /\ widx = [i \in Workers |-> 0]
  /\ wmeta = [i \in Workers |-> 0]
  /\ wtxn = [i \in Workers |-> 0]
  /\ wfresh = [i \in Workers |-> FALSE]
  /\ midx = 0
  /\ mpos = 0
  /\ outfresh = FALSE
  /\ file_list = {}
  /\ LoadIdle
  /\ ReadIdle
  /\ SplitIdle

NextMerge ==
  \/ MergeOpen
  \/ MergeShard
  \/ MergeLength
  \/ MergeSyncClose

SpecMerge == InitMerge /\ [][NextMerge]_vars

\* merge_lmdbs called on shard files whose metadata records differ: shard
\* i holds up to one sample, its "length", and any subset of the metadata
\* records, each with a value of its own.
ShardMetaValue(i, k) == Dumps(<< "meta", k, i >>)

RECURSIVE PutShardMeta(_, _, _, _)
PutShardMeta(kv, i, has, m) ==
  IF m = 0 THEN kv
  ELSE LET rest == PutShardMeta(kv, i, has, m - 1)
       IN  IF has[m] THEN Put(rest, meta_keys[m], ShardMetaValue(i, meta_keys[m]))
           ELSE rest

InitMergeMeta ==
  /\ \E lens \in [Workers -> 0..1] :
       \E has \in [Workers -> [1..Len(meta_keys) -> BOOLEAN]] :
         fs = [p \in AllPaths |->
                 IF p = OutPath THEN NoFile
                 ELSE LET i == p[2]
                          off == SumSeq([j \in 1..i |-> lens[j - 1]])
                          kv == Put(PutSamples(EmptyKV, off, lens[i]),
                                    KeyLength, Dumps(lens[i]))
                      IN  [exists |-> TRUE,
                           kv |-> PutShardMeta(kv, i, has[i], Len(meta_keys))]]
  /\ mpc = "merge_open"
  /\ run = 0
  /\ db_paths = [i \in 1..MaxWorkers |-> ShardPath(i - 1)]
  /\ chunks = << >>
  /\ wpc = [i \in Workers |-> "none"]
  /\ widx = [i \in Workers |-> 0]
  /\ wmeta = [i \in Workers |-> 0]
  /\ wtxn = [i \in Workers |-> 0]
  /\ wfresh = [i \in Workers |-> FALSE]
  /\ midx = 0
  /\ mpos = 0
  /\ outfresh = FALSE
  /\ file_list = {}
  /\ LoadIdle
  /\ ReadIdle
  /\ SplitIdle

SpecMergeMeta == InitMergeMeta /\ [][NextMerge]_vars

\* A MoleculeDataset over an sdf file whose entries have one to three atoms
\* or fail to parse, and a label file with one row for each entry.
SdfEntries == {NoneMol} \cup {[none |-> FALSE, natoms |-> n, nbonds |-> 0] : n \in 1..3}

LabelRows == {<< 0 - 3 >>, << 4 >>}

InitMolecule ==
  /\ StoreInit
  /\ ReadIdle
  /\ SplitIdle
  /\ cls = MoleculeDataset
  /\ feature_transformer \in BOOLEAN
  /\ label_transformer \in BOOLEAN
  /\ device = "None"
  /\ molecules \in SeqsUpTo(SdfEntries, MaxMols)
  /\ raw_labels \in [1..Len(molecules) -> LabelRows]
  /\ lpc = "load"
  /\ state_dict_filename = FALSE
  /\ state_dict = NoStateDict
  /\ LoadFields

NextMolecule ==
  \/ MoleculeLoad
  \/ \E item \in 0..(MaxMols - 1) : MoleculeGetItem(item)

SpecMolecule == InitMolecule /\ [][NextMolecule]_vars

\* build_reaction_graphs after its first loop: the graph of each reaction
\* has two atom nodes, one bond node and one global node; its feature set
\* has, for each node type, no entry, one row for each node, or one row
\* more.
AuditPairs ==
  LET g == [nodes |-> [nt \in NodeTypes |-> IF nt = "atom" THEN 2 ELSE 1]]
  IN  {[g |-> g, fts |-> [nt \in DOMAIN d |-> g.nodes[nt] + d[nt]]] :
         d \in UNION {[T -> {0, 1}] : T \in SUBSET NodeTypes}}

InitAudit ==
  /\ StoreInit
  /\ ReadIdle
  /\ SplitIdle
  /\ cls = RNDPrecomputed
  /\ feature_transformer = TRUE
  /\ label_transformer = TRUE
  /\ device = "None"
  /\ molecules = << >>
  /\ raw_labels = << >>
  /\ state_dict_filename = FALSE
  /\ state_dict = NoStateDict
  /\ lpc = "audit"
  /\ error = ""
  /\ graphs = << >>
  /\ molecules_final = Undefined
  /\ li = 0
  /\ reactions = << >>
  /\ labels = << >>
  /\ failed = << >>
  /\ reaction_ids = << >>
  /\ reaction_graphs \in SeqsUpTo(AuditPairs, MaxLabels)
  /\ bi = Len(reaction_graphs)
  /\ printed = {}
  /\ stored = [f \in StateFields |-> NoneValue]
  /\ reaction_network = NoNetwork
  /\ got = << >>

SpecAudit == InitAudit /\ [][AuditReactionGraphs]_vars

\* An ElectrolyteDataset over an sdf file whose entries parse or not, and a
\* label file with one row of energies and indicators for each entry.
ElectrolyteRows == {<< 3, 1 >>, << 0, 5, 0, 1 >>}

InitElectrolyte ==
  /\ StoreInit
  /\ ReadIdle
  /\ SplitIdle
  /\ cls = ElectrolyteDataset
  /\ feature_transformer \in BOOLEAN
  /\ label_transformer \in BOOLEAN
  /\ device = "None"
  /\ molecules \in SeqsUpTo({NoneMol, Mol(1)}, MaxMols)
  /\ raw_labels \in [1..Len(molecules) -> ElectrolyteRows]
  /\ lpc = "load"
  /\ state_dict_filename = FALSE
  /\ state_dict = NoStateDict
  /\ LoadFields

SpecElectrolyte == InitElectrolyte /\ [][ElectrolyteLoad]_vars

\* Featurizing the atoms of a dataset: the species list is the fixed list
\* of the reaction-network datasets, or the list of a set of species
\* collected from the molecules.
SpeciesLists ==
  {HardCodedSpecies} \cup {ListOf(S) : S \in SUBSET {"C", "H", "Li", "O", "S"}}

InitOneHot ==
  /\ StoreInit
  /\ ReadIdle
  /\ SplitIdle
  /\ cls = RNDGraphs
  /\ feature_transformer = TRUE
  /\ label_transformer = TRUE
  /\ device = "None"
  /\ molecules = << >>
  /\ raw_labels = << >>
  /\ lpc = "featurize"
  /\ state_dict_filename = FALSE
  /\ state_dict = NoStateDict
  /\ LoadFields

NextOneHot ==
  \/ \E k \in 1..Len(SymbolOrder) : \E l \in SpeciesLists :
       AtomSpeciesOneHot(SymbolOrder[k], l)
  \/ \E x \in (0 - 2)..3 : \E a \in {<< 0 - 1, 0, 1 >>, << 1, 2 >>} :
       GlobalOneHot(x, a)

SpecOneHot == InitOneHot /\ [][NextOneHot]_vars

\* Readers opened on one store, with or without partition mode.
InitRead ==
  /\ StoreInit
  /\ LoadIdle
  /\ SplitIdle
  /\ \E n \in 0..MaxStoreLen, hasLength \in BOOLEAN, hasMeta \in BOOLEAN :
       src = StoreOf(n, hasLength, hasMeta)
  /\ total_shards \in 0..MaxReaders
  /\ rd = [r \in Readers |-> NoReader]
  /\ rgot = << >>

NextRead ==
  \/ \E r \in Readers : ReaderOpen(r)
  \/ \E r \in Readers : \E idx \in 0..(MaxStoreLen + Len(meta_keys)) :
       ReaderGet(r, idx)

SpecRead == InitRead /\ [][NextRead]_vars

\* One call of a split function on a dataset.
InitSplit ==
  /\ StoreInit
  /\ LoadIdle
  /\ ReadIdle
  /\ dataset \in SeqsUpTo(LabelIds, MaxSize)
  /\ validation \in Quarters
  /\ test \in Quarters
  /\ spc = "call"
  /\ train_idx = << >>
  /\ val_idx = << >>
  /\ test_idx = << >>
  /\ sgot = << >>

NextSplit ==
  \/ SplitAssertFails
  \/ SplitRandomCall
  \/ SplitGroupedCall
  \/ \E which \in {"train", "validation", "test"} : \E k \in 0..(MaxSize - 1) :
       SubsetGet(which, k)

SpecSplit == InitSplit /\ [][NextSplit]_vars

\* The construction of one reaction-network dataset.
InitLoad == StoreInit /\ LoadInit /\ ReadIdle /\ SplitIdle

NextLoad ==
  \/ GetSpecies
  \/ BuildGraphs
  \/ FeatureTransform
  \/ CreateReaction
  \/ CreateNetwork
  \/ BuildReactionGraph
  \/ BuildReactionGraphsReturn
  \/ LabelTransform
  \/ \E item \in 0..(MaxLabels - 1) : GetItem(item)

\* The construction of one reaction-network dataset from a state dict
\* file: every field holds its saved value or None, or one key is missing.
StateDicts ==
  {d \in [StateFields -> {"None", "given"}] :
     d["feature_size"] = "given" /\ d["feature_name"] = "given"}

InitState ==
  /\ StoreInit
  /\ ReadIdle
  /\ SplitIdle
  /\ cls \in {RND, RNDGraphs, RNDPrecomputed}
  /\ feature_transformer \in BOOLEAN
  /\ label_transformer \in BOOLEAN
  /\ device = "None"
  /\ \E k \in 0..MaxMols :
       molecules = [i \in 1..MaxMols |-> IF i = k THEN NoneMol ELSE Mol(i - 1)]
  /\ raw_labels \in SeqsUpTo({RecSwap, RecIso}, MaxLabels)
  /\ state_dict_filename = TRUE
  /\ \/ \E d \in StateDicts :
          state_dict = [f \in StateFields |->
                          IF d[f] = "given" THEN Given(f) ELSE NoneValue]
     \/ \E m \in StateFields :
          state_dict = [f \in StateFields |->
                          IF f = m THEN MissingKey ELSE Given(f)]
  /\ lpc = "species"
  /\ LoadFields

SpecState == InitState /\ [][NextLoad]_vars

SpecLoad == InitLoad /\ [][NextLoad]_vars

\* ------------------------------------------------------------------------
\* Properties of the sharded store
\* ------------------------------------------------------------------------
Out == fs[OutPath].kv

\* The shard files of the current call, in db_paths order.
ShardKV(s) == fs[db_paths[s]].kv

PositionalKeys(kv) == {k \in DOMAIN kv : IsDecimal(k)}

\* The keys are the writer's: "0" .. "n-1" and the metadata names, with
\* "length" holding n.
WriterShaped(kv) ==
  /\ MetadataNames \subseteq DOMAIN kv
  /\ LET n == Loads(kv[KeyLength])
     IN  DOMAIN kv = {Str(j) : j \in 0..(n - 1)} \cup MetadataNames

\* Number of records of the shards before shard s.
RECURSIVE Offset(_)
Offset(s) == IF s = 1 THEN 0 ELSE Offset(s - 1) + Loads(ShardKV(s - 1)[KeyLength])

\* C1: after merge_lmdbs over the shards [S0, S1, ...] into a fresh output,
\* output position len(S0) + ... + len(S(s-1)) + j holds record j of shard
\* Ss, for every shard size.
C1_MergeKeepsShardOrder ==
  (/\ mpc = "merged"
   /\ outfresh
   /\ \A s \in 1..Len(db_paths) : WriterShaped(ShardKV(s)))
  => \A s \in 1..Len(db_paths) :
       \A j \in 0..(Loads(ShardKV(s)[KeyLength]) - 1) :
         /\ Str(Offset(s) + j) \in DOMAIN Out
         /\ Out[Str(Offset(s) + j)] = ShardKV(s)[Str(j)]

\* C2: after merge_lmdbs the output "length" is the sum of the shards'
\* "length" values and the number of positional keys of the output.
C2_LengthConsistent ==
  mpc = "merged"
  => /\ KeyLength \in DOMAIN Out
     /\ Loads(Out[KeyLength]) =
          SumSeq([s \in 1..Len(db_paths) |-> Loads(ShardKV(s)[KeyLength])])
     /\ Loads(Out[KeyLength]) = Cardinality(PositionalKeys(Out))

\* C7: merge_lmdbs renumbers exactly the keys made of decimal digits; every
\* other shard key is copied to the output under its own name.
C7_ClassifiedByDecimal ==
  (mpc = "merged" /\ outfresh)
  => /\ \A s \in 1..Len(db_paths) : \A k \in DOMAIN ShardKV(s) :
          (~IsDecimal(k) /\ k # KeyLength)
          => (k \in DOMAIN Out /\ Out[k] = ShardKV(s)[k])
     /\ Cardinality(PositionalKeys(Out)) =
          SumSeq([s \in 1..Len(db_paths) |-> Cardinality(PositionalKeys(ShardKV(s)))])

\* The positional keys are "0" .. "k-1" for some k.
Dense(kv) ==
  LET k == Cardinality(PositionalKeys(kv))
  IN  PositionalKeys(kv) = {Str(j) : j \in 0..(k - 1)}

\* C8: every shard file, at every commit of its writer, and the merged
\* output hold the positional keys "0" .. "k-1" without a gap.
C8_KeysDense == \A p \in AllPaths : Dense(fs[p].kv)

C8_Witness ==
  /\ mpc = "merged"
  /\ Cardinality(PositionalKeys(Out)) = MaxSamples
  /\ \A i \in Active : Cardinality(PositionalKeys(fs[ShardPath(i)].kv)) >= 1

\* C9: a writer that has finished on a fresh path left str(j) -> sample j
\* for each of its n samples, "length" -> n and each metadata key -> its
\* value, and it committed one transaction per key.
C9_WriterContent ==
  \A i \in Active :
    (fs[ShardPath(i)].exists /\ wfresh[i])
    => LET kv == fs[ShardPath(i)].kv
           n == Len(chunks[i + 1])
       IN  /\ wtxn[i] = Cardinality(DOMAIN kv)
           /\ wpc[i] = "done"
              => /\ DOMAIN kv = {Str(j) : j \in 0..(n - 1)} \cup MetadataNames
                 /\ \A j \in 0..(n - 1) : Loads(kv[Str(j)]) = chunks[i + 1][j + 1]
                 /\ Loads(kv[KeyLength]) = n
                 /\ \A m \in 1..Len(meta_keys) :
                      Loads(kv[meta_keys[m]]) = MetaValue(meta_keys[m])
                 /\ wtxn[i] = n + 1 + Len(meta_keys)

C9_Witness ==
  \E i \in Active :
    /\ wpc[i] = "done"
    /\ wfresh[i]
    /\ fs[ShardPath(i)].exists
    /\ Len(chunks[i + 1]) = MaxSamples

MergeStarted ==
  mpc \in {"merge_loop", "merge_sync", "merged", "cleanup", "done"}

\* C10: merge_lmdbs is entered only when every writer returned; when a
\* writer raised, merge_lmdbs is not entered, no output file is made and
\* the call ends by raising.
C10_MergeAfterWriters ==
  /\ (mpc = "merge_open" \/ MergeStarted) => \A i \in Active : wpc[i] = "done"
  /\ (\E i \in Active : wpc[i] = "failed")
     => (mpc \in {"map", "raised"} /\ ~fs[OutPath].exists)
  /\ mpc = "raised" => \E i \in Active : wpc[i] = "failed"

C10_Witness ==
  /\ mpc = "raised"
  /\ \E i \in Active : wpc[i] = "failed"
  /\ \E i \in Active : wpc[i] = "done"

\* The samples handed to the workers of the current call.
TotalSamples == SumSeq([s \in 1..Len(chunks) |-> Len(chunks[s])])

\* The output holds every sample of the call under a positional key, the
\* corrected "length" and the metadata.
OutputComplete ==
  /\ fs[OutPath].exists
  /\ MetadataNames \subseteq DOMAIN Out
  /\ Loads(Out[KeyLength]) = TotalSamples
  /\ Cardinality(PositionalKeys(Out)) = TotalSamples
  /\ \A s \in 1..Len(chunks) : \A j \in 1..Len(chunks[s]) :
       \E k \in PositionalKeys(Out) : Out[k] = Dumps(chunks[s][j])

\* Worker i's shard file was written to the end and is no longer there.
Removed(i) == wpc[i] = "done" /\ ~fs[ShardPath(i)].exists

\* A step that deletes a shard file.
RemovesShard ==
  \E p \in AllPaths : MatchesTmpData(p) /\ fs[p].exists /\ ~fs'[p].exists

\* C11: a shard file is deleted only by the cleanup, which starts only
\* after merge_lmdbs has written every record and the corrected "length"
\* and has synced and closed the output: whenever a shard file is gone,
\* the output is complete.
C11_ShardsDeletedAfterMerge ==
  /\ [](\A i \in Active :
         Removed(i) => (mpc \in {"cleanup", "done"} /\ OutputComplete))
  /\ [][RemovesShard => (mpc = "cleanup" /\ OutputComplete)]_vars
  /\ [][(mpc' = "cleanup" /\ mpc # "cleanup") => mpc = "merged"]_vars
  /\ [][(mpc' = "merged" /\ mpc # "merged")
         => (mpc = "merge_sync" /\ OutputComplete)]_vars

C11_Witness ==
  /\ mpc = "done"
  /\ Cardinality(Active) = MaxWorkers
  /\ \A i \in Active : Removed(i)
  /\ TotalSamples = MaxSamples

\* The shard write_crns_to_lmdb leaves in a fresh file for one chunk.
RECURSIVE PutChunk(_, _, _)
PutChunk(kv, chunk, n) ==
  IF n = 0 THEN kv
  ELSE Put(PutChunk(kv, chunk, n - 1), Str(n - 1), Dumps(chunk[n]))

ChunkShard(chunk) ==
  PutMeta(Put(PutChunk(EmptyKV, chunk, Len(chunk)), KeyLength, Dumps(Len(chunk))),
          Len(meta_keys))

\* The shards of the chunks merged one after the other, in index order.
RECURSIVE SequentialMerge(_, _)
SequentialMerge(cs, s) ==
  IF s = 0 THEN [kv |-> EmptyKV, idx |-> 0]
  ELSE LET r == SequentialMerge(cs, s - 1)
       IN  MergeShardInto(r.kv, ChunkShard(cs[s]), r.idx)

MergedOf(cs) ==
  LET r == SequentialMerge(cs, Len(cs)) IN Put(r.kv, KeyLength, Dumps(r.idx))

\* The output position of sample x.
PosOf(x) ==
  CHOOSE j \in 0..TotalSamples : Str(j) \in DOMAIN Out /\ Out[Str(j)] = Dumps(x)

\* C12: worker i writes shard path i only and the paths are distinct, so
\* each shard file holds nothing but its worker's records; the merged
\* output is a function of the chunks alone, whatever the order in which
\* the workers wrote and finished, and holds shard i's records before
\* shard j's for i < j.
C12_MergedContentDeterministic ==
  /\ \A a, b \in 1..Len(db_paths) : a # b => db_paths[a] # db_paths[b]
  /\ \A i \in Active :
       /\ db_paths[i + 1] = ShardPath(i)
       /\ \A k \in PositionalKeys(fs[ShardPath(i)].kv) :
            \E j \in 1..Len(chunks[i + 1]) :
              /\ k = Str(j - 1)
              /\ fs[ShardPath(i)].kv[k] = Dumps(chunks[i + 1][j])
  /\ mpc = "merged"
     => /\ Out = MergedOf(chunks)
        /\ \A s, t \in 1..Len(chunks) :
             s < t => \A a \in 1..Len(chunks[s]), b \in 1..Len(chunks[t]) :
                        PosOf(chunks[s][a]) < PosOf(chunks[t][b])

C12_Witness ==
  /\ mpc = "merged"
  /\ Cardinality(Active) = MaxWorkers
  /\ \A i \in Active : Len(chunks[i + 1]) >= 1

\* What dataset_chunked is right after CRNs2lmdb split n samples among w
\* workers.
ChunksPartition(n, w) ==
  LET lens == [c \in 1..Len(chunks) |-> Len(chunks[c])]
  IN  /\ Len(chunks) = w
      /\ SumSeq(lens) = n
      /\ \A a, b \in 1..w : lens[a] - lens[b] \in {-1, 0, 1}
      /\ \A a, b \in 1..w : lens[a] > lens[b] => (a <= n % w /\ b > n % w)
      /\ Cardinality({c \in 1..w : lens[c] > n \div w}) = n % w
      /\ \A x \in 0..(n - 1) :
           Cardinality({cj \in (1..w) \X (1..n) :
                          /\ cj[2] <= lens[cj[1]]
                          /\ chunks[cj[1]][cj[2]] = Sample(x)}) = 1

\* C20: CRNs2lmdb hands every sample to exactly one worker; the chunk
\* sizes sum to len(CRNsDb), differ by at most 1, and the larger chunks are
\* the first len mod num_workers ones.
C20_ChunksPartition ==
  [][\A n \in 0..MaxSamples, w \in 1..MaxWorkers :
       \A perm \in IndexPerms(n) :
         CRNs2lmdbStart(n, w, perm) => ChunksPartition(n, w)']_vars

C20_Witness ==
  /\ mpc = "map"
  /\ Len(chunks) = MaxWorkers
  /\ Len(chunks[1]) > Len(chunks[MaxWorkers])

\* ------------------------------------------------------------------------
\* Properties of the LmdbDataset readers
\* ------------------------------------------------------------------------
OpenReaders == {r \in Readers : rd[r].open}

\* The indices reader r can reach.
Visible(r) ==
  IF rd[r].sharded
  THEN {rd[r].available_indices[j] : j \in 1..Len(rd[r].available_indices)}
  ELSE 0..(rd[r].num_entries - 1)

\* C13: in partition mode the visible ranges of the readers of one store
\* are pairwise disjoint, cover [0, L) once all total_shards readers are
\* open, have sizes that differ by at most 1, and a reader's range never
\* changes after the open.
C13_ReadersPartition ==
  /\ [](total_shards >= 1 =>
         /\ \A r \in OpenReaders :
              /\ Visible(r) \subseteq 0..(rd[r].num_entries - 1)
              /\ Cardinality(Visible(r)) = rd[r].num_samples
              /\ Len(rd[r].available_indices) = rd[r].num_samples
         /\ \A q, r \in OpenReaders :
              /\ q # r => Visible(q) \cap Visible(r) = {}
              /\ rd[q].num_samples - rd[r].num_samples \in {-1, 0, 1}
         /\ Cardinality(OpenReaders) = total_shards
            => \A r \in OpenReaders :
                 UNION {Visible(q) : q \in OpenReaders} = 0..(rd[r].num_entries - 1))
  /\ [][\A r \in Readers : rd[r].open => rd'[r] = rd[r]]_vars

C13_Witness ==
  /\ total_shards = MaxReaders
  /\ Cardinality(OpenReaders) = MaxReaders
  /\ \A r \in OpenReaders : rd[r].num_entries = MaxStoreLen
  /\ rgot # << >>

\* The keys merge_lmdbs copies by name: those int() rejects.
NamedKeys(kv) == {k \in DOMAIN kv : ~PyIntParses(k)}

\* The positions in db_paths of the shards that hold key k.
Holders(k) == {j \in 1..Len(db_paths) : k \in DOMAIN fs[db_paths[j]].kv}

Max(S) == CHOOSE x \in S : \A y \in S : y <= x

\* C27: in every committed state of the output file a "length" record
\* that is present holds the number of positional keys of the file.
C27_OutputLengthConsistent ==
  (fs[OutPath].exists /\ KeyLength \in DOMAIN Out)
  => Loads(Out[KeyLength]) = Cardinality(PositionalKeys(Out))

\* C28: when a CRNs2lmdb call has merged, every positional record of the
\* output is a sample of the dataset of that call and "length" is the size
\* of that dataset, whatever files out_path held before the call.
C28_OutputIsDatasetOfCall ==
  mpc \in {"merged", "cleanup", "done"}
  => /\ \A k \in PositionalKeys(Out) :
          \E s \in 1..Len(chunks) : \E j \in 1..Len(chunks[s]) :
            Out[k] = Dumps(chunks[s][j])
     /\ KeyLength \in DOMAIN Out
     /\ Loads(Out[KeyLength]) = TotalSamples

\* C29: in every state of a shard file that its writer created, crashed or
\* not, a "length" record with value n comes with the keys "0" .. "n-1",
\* and a metadata record comes with the "length" record.
C29_LengthAfterSamples ==
  \A i \in Active :
    (wfresh[i] /\ fs[ShardPath(i)].exists)
    => LET kv == fs[ShardPath(i)].kv
       IN  /\ KeyLength \in DOMAIN kv
              => \A j \in 0..(Loads(kv[KeyLength]) - 1) : Str(j) \in DOMAIN kv
           /\ (\E m \in 1..Len(meta_keys) : meta_keys[m] \in DOMAIN kv)
              => KeyLength \in DOMAIN kv

C29_Witness ==
  \E i \in Active :
    /\ wpc[i] = "failed"
    /\ wfresh[i]
    /\ KeyLength \in DOMAIN fs[ShardPath(i)].kv
    /\ Loads(fs[ShardPath(i)].kv[KeyLength]) = MaxSamples
    /\ KeyDtype \in DOMAIN fs[ShardPath(i)].kv
    /\ KeyFeatureName \notin DOMAIN fs[ShardPath(i)].kv

\* C22: after merge_lmdbs every key other than "length" that some shard
\* holds and that is copied by name is in the output, with the value of the
\* last shard of db_paths that holds it; no step of the merge compares
\* values, so the loop always has a next step until the output is closed.
C22_LastShardWins ==
  /\ (mpc = "merged"
       => \A j \in 1..Len(db_paths) :
            \A k \in NamedKeys(fs[db_paths[j]].kv) \ {KeyLength} :
              /\ k \in DOMAIN fs[OutPath].kv
              /\ fs[OutPath].kv[k] = fs[db_paths[Max(Holders(k))]].kv[k])
  /\ (mpc = "merge_loop" => mpos <= Len(db_paths))

C22_Witness ==
  /\ mpc = "merged"
  /\ \E k \in NamedKeys(fs[OutPath].kv) \ {KeyLength} :
       /\ Cardinality(Holders(k)) > 1
       /\ \E j \in Holders(k) : fs[db_paths[j]].kv[k] # fs[OutPath].kv[k]
  /\ \E k \in NamedKeys(fs[OutPath].kv) \ {KeyLength} :
       Holders(k) = {1}

\* The index get(idx) of reader r stands for.
IndexOf(r, idx) ==
  IF rd[r].sharded THEN rd[r].available_indices[idx + 1] ELSE idx

\* C14: get(idx), 0 <= idx < length(), returns the deserialized value of
\* the positional key str(idx) (of the idx-th visible index in partition
\* mode), which the store holds.
C14_GetReturnsSample ==
  rgot # << >>
  => /\ rgot.key = Str(IndexOf(rgot.reader, rgot.idx))
     /\ rgot.key \in PositionalKeys(src)
     /\ rgot.result = << "returned", Loads(src[rgot.key]) >>

\* C21: a reader opened on a store without the "length" record takes the
\* store's entry count as its length, and the open reports the fallback.
C21_FallbackReported ==
  \A r \in OpenReaders :
    KeyLength \notin DOMAIN src
    => /\ rd[r].num_entries = Entries(src)
       /\ rd[r].reported # << >>

\* ------------------------------------------------------------------------
\* Properties of the reaction-network datasets
\* ------------------------------------------------------------------------
\* Molecule index d has no graph: it is past the molecule list or the
\* molecule is None.
NoGraph(d) == d \notin 0..(Len(molecules) - 1) \/ molecules[d + 1].none

ReferencesNoGraph(lb) ==
  \/ \E j \in 1..Len(lb.reactants) : NoGraph(lb.reactants[j])
  \/ \E j \in 1..Len(lb.products) : NoGraph(lb.products[j])

\* C3: a built dataset has one failed flag per raw label record, true
\* exactly for the records that reference a molecule without graph, and as
\* many reactions and labels as there are false flags.
C3_FailedAligned ==
  lpc = "done"
  => /\ Len(failed) = Len(raw_labels)
     /\ \A i \in 1..Len(raw_labels) : failed[i] = ReferencesNoGraph(raw_labels[i])
     /\ Len(labels) = Cardinality({i \in 1..Len(failed) : ~failed[i]})
     /\ Len(reaction_ids) = Len(labels)

C3_Witness ==
  /\ lpc = "done"
  /\ cls = RNDGraphs
  /\ Len(failed) = MaxLabels
  /\ \E i \in 1..Len(failed) : failed[i]
  /\ \E i \in 1..Len(failed) : ~failed[i]

\* C4: a None molecule never aborts the construction of a reaction-network
\* dataset, wherever it stands in the molecule list.
C4_NoneMoleculeTolerated ==
  ~(lpc = "raised" /\ error \in {"IndexError", "AttributeError"})

\* Positions of the accepted records in reactions.
Accepted == 1..Len(reactions)

Positions(maps) == UNION {{maps[q][l] : l \in 1..Len(maps[q])} : q \in 1..Len(maps)}

Pairs(maps) == SumSeq([q \in 1..Len(maps) |-> Len(maps[q])])

Tiles(maps, total) == Positions(maps) = 0..(total - 1) /\ Pairs(maps) = total

Mismatch(rxn) ==
  \/ Len(rxn.bond_mapping[1]) # Len(rxn.reactants)
  \/ Len(rxn.bond_mapping[2]) # Len(rxn.products)

\* build_reaction_graphs has dealt with reactions[j].
Handled(j) ==
  \/ bi >= j
  \/ lpc = "raised" /\ error = "StructuralMappingError" /\ bi = j - 1

\* C15: a reaction whose bond_mapping has not one entry per participant is
\* logged with its id and left out of the reaction graphs, and the
\* construction goes on with the other reactions.
C15_MismatchRejected ==
  cls = RNDPrecomputed
  => \A j \in 1..Len(reactions) :
       (Mismatch(reactions[j]) /\ Handled(j))
       => /\ << "unequal mapping & graph len", reactions[j].id >> \in printed
          /\ \A g \in 1..Len(reaction_graphs) :
               reaction_graphs[g].id # reactions[j].id
          /\ lpc # "raised"

ScalerFields ==
  {"feature_scaler_mean", "feature_scaler_std", "label_scaler_mean",
   "label_scaler_std", "species"}

\* The raw value a label value was made from.
RawOf(value) == IF value[1] = "raw" THEN value[2] ELSE value[2][2]

\* C16: a ReactionNetworkDataset built from a state dict file scaled the
\* features and the labels with the mean and std of the file and still
\* stores the values of the file; when the file lacks species or a value an
\* enabled transformer needs, no dataset is built, and no statistic is ever
\* computed from the data.
C16_SuppliedStateUsed ==
  (cls = RND /\ state_dict_filename)
  => /\ \A f \in ScalerFields : stored[f] \in {NoneValue, Given(f)}
     /\ lpc = "done"
        => /\ \A f \in ScalerFields : stored[f] = state_dict[f]
           /\ stored.species = Given("species")
           /\ feature_transformer
              => /\ stored.feature_scaler_mean = Given("feature_scaler_mean")
                 /\ stored.feature_scaler_std = Given("feature_scaler_std")
                 /\ \A i \in 1..Len(graphs) :
                      ~graphs[i].none
                      => graphs[i].feat =
                           << "scaled", Given("feature_scaler_mean"),
                              Given("feature_scaler_std") >>
           /\ label_transformer
              => /\ stored.label_scaler_mean = Given("label_scaler_mean")
                 /\ stored.label_scaler_std = Given("label_scaler_std")
                 /\ \A j \in 1..Len(labels) :
                      labels[j].value =
                        Scale(<< "raw", RawOf(labels[j].value) >>,
                              Given("label_scaler_mean"),
                              Given("label_scaler_std"))

C16_Witness ==
  /\ cls = RND
  /\ state_dict_filename
  /\ lpc = "done"
  /\ feature_transformer
  /\ label_transformer
  /\ Len(labels) = MaxLabels
  /\ \E i \in 1..Len(graphs) : ~graphs[i].none

\* The raw records that reference molecules with a graph only, in the
\* order of raw_labels.
AcceptedRaw == SelectSeq(raw_labels, LAMBDA lb : ~ReferencesNoGraph(lb))

\* C17: a built ReactionNetworkDataset or ReactionNetworkDatasetGraphs has
\* the reaction ids 0 .. n-1, reaction and label j are those of the j-th
\* accepted raw record (so the order is a function of the inputs), and
\* dataset[i] is (the network, i, labels[i]) with the one network object
\* the construction made.
C17_DenseIdsInOrder ==
  /\ []((cls \in {RND, RNDGraphs} /\ lpc = "done")
        => /\ Len(reactions) = Len(AcceptedRaw)
           /\ Len(labels) = Len(AcceptedRaw)
           /\ reaction_ids = [j \in 1..Len(AcceptedRaw) |-> j - 1]
           /\ \A j \in 1..Len(AcceptedRaw) :
                /\ reactions[j] = AcceptedRaw[j]
                /\ labels[j].id = AcceptedRaw[j].id
                /\ RawOf(labels[j].value) = AcceptedRaw[j].value
           /\ reaction_network.object = 1
           /\ reaction_network.reactions = reactions
           /\ got # << >>
              => /\ got.rn = reaction_network
                 /\ got.rxn = got.item
                 /\ got.lb = labels[got.item + 1])
  /\ [][reaction_network.object # 0 => reaction_network' = reaction_network]_vars

C17_Witness ==
  /\ cls = RND
  /\ lpc = "done"
  /\ Len(raw_labels) = MaxLabels
  /\ Len(labels) = MaxLabels
  /\ raw_labels[1].id # raw_labels[MaxLabels].id
  /\ got # << >>
  /\ got.item = MaxLabels - 1

\* C30: constructing ReactionNetworkDatasetGraphs or
\* ReactionNetworkDatasetPrecomputed with feature_transformer=False never
\* stops at the creation of the reaction network on a name that was not
\* bound: the molecule list handed to ReactionNetwork is defined.
C30_NetworkBuiltWithoutTransformer ==
  (cls \in {RNDGraphs, RNDPrecomputed} /\ ~feature_transformer)
  => ~(lpc = "raised" /\ error = "UnboundLocalError")

\* C24: build_reaction_graphs prints a report for every reaction whose
\* feature rows, summed over the node types, differ from its graph's node
\* count, and returns the graph and feature set of every reaction.
C24_MismatchReportedNotFatal ==
  lpc \in {"returned", "raised"}
  => /\ lpc = "returned"
     /\ \A ind \in 1..Len(reaction_graphs) :
          TotalFeats(reaction_graphs[ind].fts)
            # number_of_nodes(reaction_graphs[ind].g)
          => << "mismatch", ind - 1 >> \in printed

\* ------------------------------------------------------------------------
\* Properties of MoleculeDataset
\* ------------------------------------------------------------------------
\* C23: with label_transformer each label of a loaded MoleculeDataset
\* holds, for its extensive column, the raw value divided by the atom count
\* of its molecule, scaler_mean 0 and scaler_stdev the atom count, and
\* value * scaler_stdev + scaler_mean is the raw value.
C23_ExtensiveRoundTrip ==
  (cls = MoleculeDataset /\ lpc = "done" /\ label_transformer)
  => \A k \in 1..Len(labels) :
       LET lb == labels[k]
           y == raw_labels[lb.id + 1][1]
           natoms == molecules[lb.id + 1].natoms
       IN  /\ lb.value[1] = Frac(y, natoms)
           /\ lb.scaler_mean[1] = 0
           /\ lb.scaler_stdev[1] = natoms
           /\ FracMulAdd(lb.value[1], lb.scaler_stdev[1], lb.scaler_mean[1])
                = Frac(y, 1)

C23_Witness ==
  /\ cls = MoleculeDataset
  /\ lpc = "done"
  /\ label_transformer
  /\ Len(labels) = MaxMols - 1
  /\ \E k \in 1..Len(labels) : labels[k].value[1].den > 1
  /\ \E k \in 1..Len(labels) : labels[k].id # k - 1
  /\ got # << >>

\* C25: a constructed ElectrolyteDataset has one graph and one label for
\* each entry of the sdf file that parses, in file order, and the label's
\* energies and indicators are the first and the second half of the row of
\* the label file at that entry's position.
C25_LabelsAreRowHalves ==
  (cls = ElectrolyteDataset /\ lpc = "done")
  => LET kept == KeptFrom(molecules, raw_labels, 1)
     IN  /\ Len(graphs) = Len(kept)
         /\ Len(labels) = Len(kept)
         /\ \A k \in 1..Len(kept) :
              /\ graphs[k].graph_id = kept[k]
              /\ labels[k].value = << "raw", Energies(raw_labels[kept[k] + 1]) >>
              /\ labels[k].indicator = Indicators(raw_labels[kept[k] + 1])

\* C26: what one_hot_encoding returns has the length of allowable_set,
\* holds only 0 and 1, holds 1 at most once, and holds 1 at position i only
\* if x = allowable_set[i].
C26_OneHotAtMostOne ==
  (lpc = "featurize" /\ got # << >>)
  => /\ Len(got.out) = Len(got.allowable_set)
     /\ \A i \in 1..Len(got.out) : got.out[i] \in {0, 1}
     /\ \A i \in 1..Len(got.out) :
          got.out[i] = 1 => got.x = got.allowable_set[i]
     /\ Cardinality({i \in 1..Len(got.out) : got.out[i] = 1}) <= 1

\* ------------------------------------------------------------------------
\* Properties of the splits
\* ------------------------------------------------------------------------
Elems(q) == {q[j] : j \in 1..Len(q)}

\* The three index sequences have no index twice, share none, and hold
\* every index of the dataset.
ThreeWayPartition ==
  /\ Len(train_idx) + Len(val_idx) + Len(test_idx) = Len(dataset)
  /\ Elems(train_idx) \cup Elems(val_idx) \cup Elems(test_idx)
       = 0..(Len(dataset) - 1)
  /\ Elems(train_idx) \cap Elems(val_idx) = {}
  /\ Elems(train_idx) \cap Elems(test_idx) = {}
  /\ Elems(val_idx) \cap Elems(test_idx) = {}

SameId(i, j) == dataset[i + 1] = dataset[j + 1]

\* C18 as stated: after the grouped split two records with the same label
\* id are both in train, both in validation or both in test, and the three
\* sets partition the indices.
C18_GroupsInOnePartition ==
  spc = "split_grouped"
  => /\ ThreeWayPartition
     /\ \A i, j \in 0..(Len(dataset) - 1) :
          SameId(i, j)
          => \/ {i, j} \subseteq Elems(train_idx)
             \/ {i, j} \subseteq Elems(val_idx)
             \/ {i, j} \subseteq Elems(test_idx)

\* C18 amended: after the grouped split two records with the same label id
\* are both in test or both in train-or-validation, and the three sets
\* partition the indices.
C18_GroupsInTestOrNot ==
  spc = "split_grouped"
  => /\ ThreeWayPartition
     /\ \A i, j \in 0..(Len(dataset) - 1) :
          SameId(i, j)
          => \/ {i, j} \subseteq Elems(test_idx)
             \/ {i, j} \subseteq (Elems(train_idx) \cup Elems(val_idx))

C18_Witness ==
  /\ spc = "split_grouped"
  /\ Len(dataset) = MaxSize
  /\ \E i, j \in Elems(test_idx) : i # j /\ SameId(i, j)
  /\ \E i \in Elems(train_idx) : \E j \in Elems(val_idx) : SameId(i, j)

\* C19: train_validation_test_split returns three index sets that
\* partition {0 .. n-1} with n - int(n*validation) - int(n*test),
\* int(n*validation) and int(n*test) elements, and Subset[k] is
\* dataset[indices[k]].
C19_SplitPartition ==
  spc = "split"
  => /\ ThreeWayPartition
     /\ Len(val_idx) = IntOfProduct(Len(dataset), validation)
     /\ Len(test_idx) = IntOfProduct(Len(dataset), test)
     /\ Len(train_idx) = Len(dataset) - Len(val_idx) - Len(test_idx)
     /\ sgot # << >>
        => LET i == SubsetIndices(sgot.subset)[sgot.k + 1]
           IN  sgot.item = [index |-> i, id |-> dataset[i + 1]]

C19_Witness ==
  /\ spc = "split"
  /\ Len(dataset) = MaxSize
  /\ val_idx # << >>
  /\ test_idx # << >>
  /\ sgot # << >>
  /\ sgot.subset = "test"

====
